---- MODULE Spec2Model ----
(***************************************************************************)
(* Model of safesonnet.SafeImporter: an import resolver confined to one    *)
(* root directory.  Paths are modelled as a flag (absolute or not) and the *)
(* sequence of their slash-separated segments; the path functions of       *)
(* path/filepath are operators over that representation.                   *)
(***************************************************************************)
EXTENDS Integers, Sequences, FiniteSets, TLC

\* ------------------------------------------------------------------------
\* Bounds of the model
\* ------------------------------------------------------------------------
MaxCalls == 2
MaxFsOps == 1

\* ------------------------------------------------------------------------
\* Paths
\* ------------------------------------------------------------------------
AbsP(s) == [abs |-> TRUE, segs |-> s]
RelP(s) == [abs |-> FALSE, segs |-> s]

\* the empty string and the path "."
Empty == RelP(<<>>)
Dot == RelP(<<".">>)

\* segment names that begin with the two characters ".."
DotDotNames == {"..", "..x"}
\* segment names that contain a null byte
NulNames == {"nul0"}

IsAbs(p) == p.abs

HasNul(p) == \E i \in 1..Len(p.segs) : p.segs[i] \in NulNames

\* strings.HasPrefix(rel, ".."): the string of a relative path starts with
\* its first segment
HasDotDotPrefix(p) == ~p.abs /\ Len(p.segs) > 0 /\ p.segs[1] \in DotDotNames

\* strings.HasPrefix(rel, "/")
HasSlashPrefix(p) == p.abs

RECURSIVE CleanSegs(_, _, _)
CleanSegs(abs, in, out) ==
    IF in = <<>> THEN out
    ELSE LET s == Head(in)
             r == Tail(in)
         IN  IF s = "." \/ s = "" THEN CleanSegs(abs, r, out)
             ELSE IF s = ".."
                  THEN IF Len(out) > 0 /\ out[Len(out)] # ".."
                       THEN CleanSegs(abs, r, SubSeq(out, 1, Len(out) - 1))
                       ELSE IF abs THEN CleanSegs(abs, r, out)
                            ELSE CleanSegs(abs, r, Append(out, ".."))
                  ELSE CleanSegs(abs, r, Append(out, s))

\* filepath.Clean
Clean(p) ==
    LET Cleaned(o) == IF o = <<>> /\ ~p.abs THEN Dot ELSE [abs |-> p.abs, segs |-> o]
    IN  Cleaned(CleanSegs(p.abs, p.segs, <<>>))

\* filepath.Join of a sequence of paths: empty elements are ignored, the
\* rest is joined with separators and cleaned
RECURSIVE JoinSegs(_)
JoinSegs(ps) ==
    IF ps = <<>> THEN <<>> ELSE Head(ps).segs \o JoinSegs(Tail(ps))

Join(ps) ==
    LET Joined(ne) ==
            IF ne = <<>> THEN Empty
            ELSE Clean([abs |-> ne[1].abs, segs |-> JoinSegs(ne)])
    IN  Joined(SelectSeq(ps, LAMBDA p : p # Empty))

\* filepath.Dir: everything before the last segment, cleaned
Dir(p) ==
    IF p.segs = <<>> THEN Clean(p)
    ELSE Clean([abs |-> p.abs, segs |-> SubSeq(p.segs, 1, Len(p.segs) - 1)])

\* filepath.Abs under working directory wd (NoCwd: Getwd fails)
NoCwd == RelP(<<"nocwd">>)

Abs(wd, p) ==
    IF IsAbs(p) THEN [err |-> FALSE, path |-> Clean(p)]
    ELSE IF wd = NoCwd THEN [err |-> TRUE, path |-> Empty]
    ELSE [err |-> FALSE, path |-> Join(<<wd, p>>)]

\* length of the longest common prefix of two segment sequences
RECURSIVE CommonLen(_, _)
CommonLen(a, b) ==
    IF a = <<>> \/ b = <<>> \/ Head(a) # Head(b) THEN 0
    ELSE 1 + CommonLen(Tail(a), Tail(b))

\* filepath.Rel(base, targ)
Rel(basepath, targpath) ==
    LET \* what is left of base and of targ behind their common prefix
        Up(brest, trest) ==
            IF brest # <<>> /\ brest[1] = ".." THEN [err |-> TRUE, path |-> Empty]
            ELSE [err |-> FALSE,
                  path |-> RelP([i \in 1..Len(brest) |-> ".."] \o trest)]
        Split(bs, ts, n) == Up(SubSeq(bs, n + 1, Len(bs)), SubSeq(ts, n + 1, Len(ts)))
        Segs(bs, ts) == Split(bs, ts, CommonLen(bs, ts))
        Cleaned(base, targ) ==
            IF targ = base THEN [err |-> FALSE, path |-> Dot]
            ELSE IF base.abs # targ.abs THEN [err |-> TRUE, path |-> Empty]
            ELSE Segs(IF base = Dot THEN <<>> ELSE base.segs, targ.segs)
    IN  Cleaned(Clean(basepath), Clean(targpath))

\* ------------------------------------------------------------------------
\* The filesystem
\* ------------------------------------------------------------------------
\* the root directory and the directories that exist inside it
RootDir == AbsP(<<"r">>)
LibDir == AbsP(<<"r", "lib">>)
SubDir == AbsP(<<"r", "sub">>)
Dirs == {RootDir, LibDir, SubDir}

\* a directory outside the root, and a file in it
OutDir == AbsP(<<"w">>)
OutFile == AbsP(<<"w", "a">>)

\* the positions inside the root where a file named "a" may exist
RootFile == AbsP(<<"r", "a">>)
LibFile == AbsP(<<"r", "lib", "a">>)
Slots == {RootFile, LibFile}

\* file contents: the bytes written at position at, in version ver
Data(at, ver) == [at |-> at, ver |-> ver]
NoData == Data(Empty, 0)
Secret == Data(OutFile, 1)
Versions == {1, 2}

\* what a slot holds: nothing, a symbolic link to OutFile, or a regular file
Absent == [kind |-> "absent", data |-> NoData]
SymOut == [kind |-> "symout", data |-> Secret]
File(d) == [kind |-> "file", data |-> d]
NodeKinds == {Absent, SymOut} \cup {File(Data(s, v)) : s \in Slots, v \in Versions}

IsPrefix(a, b) == Len(a) <= Len(b) /\ SubSeq(b, 1, Len(a)) = a

\* the location that relPath names under the root handle: whether the path
\* leaves the root, the file position it names, and the file positions above it
OpenTarget(relPath) ==
    LET At(c, t) ==
            [escapes |-> c.abs \/ (Len(c.segs) > 0 /\ c.segs[1] = ".."),
             at |-> t,
             above |-> {s \in Slots : IsPrefix(s.segs, t.segs) /\ s # t}]
        Under(c) == At(c, Join(<<RootDir, c>>))
    IN  Under(Clean(relPath))

\* RootOpen as it would be if the handle followed a symbolic link that leaves
\* the root
RootOpenFollowsLinks(f, closed, tgt) ==
    LET t == tgt.at
    IN  IF closed \/ tgt.escapes THEN [kind |-> "other", data |-> NoData]
        ELSE IF t \in Slots
             THEN IF f[t].kind = "absent" THEN [kind |-> "notexist", data |-> NoData]
                  ELSE [kind |-> "ok", data |-> f[t].data]
        ELSE IF t \in Dirs THEN [kind |-> "other", data |-> NoData]
        ELSE IF \E s \in tgt.above : f[s].kind # "absent"
             THEN [kind |-> "other", data |-> NoData]
        ELSE [kind |-> "notexist", data |-> NoData]

\* os.Root.Open(relPath) followed by io.ReadAll, on the handle of RootDir.
\* kind is "ok" (data read), "notexist" (os.IsNotExist holds) or "other".
\* tgt is OpenTarget(relPath)
RootOpen(f, closed, tgt) ==
    LET t == tgt.at
        above == tgt.above
    IN  IF closed THEN [kind |-> "other", data |-> NoData]
        ELSE IF tgt.escapes THEN [kind |-> "other", data |-> NoData]
        ELSE IF t \in Slots
             THEN IF f[t].kind = "absent" THEN [kind |-> "notexist", data |-> NoData]
                  ELSE IF f[t].kind = "symout" THEN [kind |-> "other", data |-> NoData]
                  ELSE [kind |-> "ok", data |-> f[t].data]
        ELSE IF t \in Dirs THEN [kind |-> "other", data |-> NoData]
        ELSE IF \E s \in above : f[s].kind # "absent"
             THEN [kind |-> "other", data |-> NoData]
        ELSE [kind |-> "notexist", data |-> NoData]

\* ------------------------------------------------------------------------
\* Inputs
\* ------------------------------------------------------------------------
\* library path lists given to the constructor
JPathConfigs ==
    { <<>>,
      <<Empty>>,
      <<RelP(<<"lib">>)>>,
      <<LibDir>>,
      <<RelP(<<"lib", ".">>), Empty, Dot>>,
      <<RelP(<<"..", "w">>)>>,
      <<RelP(<<"lib">>), OutDir>> }

\* working directories of the process: one inside the root, one outside
Cwds == {SubDir, OutDir}

\* an importing file in a subdirectory of root, by its absolute and by its
\* relative name
SubMain == AbsP(<<"r", "sub", "m">>)
RelMain == RelP(<<"sub", "m">>)

\* the requests (importedFrom, importedPath) that callers make
Requests ==
    ({Empty} \X {RelP(<<"a">>), RelP(<<"..", "a">>), AbsP(<<"r", ".", "a">>),
                 AbsP(<<"r", "..", "w", "a">>), RelP(<<"nul0">>)})
    \cup ({RootFile} \X {RelP(<<"a">>), RelP(<<"lib", "a">>), RelP(<<"..", "a">>),
                         AbsP(<<"r", ".", "a">>), OutFile, RelP(<<"lib">>)})
    \cup ({SubMain} \X {RelP(<<"a">>), RelP(<<"..", "lib", "a">>)})
    \cup ({RelMain} \X {RelP(<<"a">>)})
    \cup ({RelP(<<"nul0">>)} \X {OutFile})

\* ------------------------------------------------------------------------
\* The importer
\* ------------------------------------------------------------------------
\* the inside/outside test without the test for a leading ".."
IsOutsideRelErrOnly(r) == r.err \/ (HasSlashPrefix(r.path) /\ r.path # Dot)

\* the inside/outside test applied to the result of filepath.Rel
IsOutsideRel(r) ==
    r.err \/ HasDotDotPrefix(r.path) \/ (HasSlashPrefix(r.path) /\ r.path # Dot)

\* resolveJPath without the test against root
resolveJPathUnchecked(jp, rootAbs) ==
    LET Relative(rel) ==
            IF rel.err THEN [err |-> "ErrJPathOutsideRoot", path |-> Empty]
            ELSE [err |-> "", path |-> rel.path]
        Absolute(absJP) == Relative(Rel(rootAbs, absJP))
    IN  Absolute(Clean(IF ~IsAbs(jp) THEN Join(<<rootAbs, jp>>) ELSE jp))

\* resolveJPath returning the absolute library path it has computed
resolveJPathStoresAbs(jp, rootAbs) ==
    LET Relative(absJP, rel) ==
            IF IsOutsideRel(rel) THEN [err |-> "ErrJPathOutsideRoot", path |-> Empty]
            ELSE [err |-> "", path |-> absJP]
        Absolute(absJP) == Relative(absJP, Rel(rootAbs, absJP))
    IN  Absolute(Clean(IF ~IsAbs(jp) THEN Join(<<rootAbs, jp>>) ELSE jp))

\* resolveJPath: the library path relative to root, or an error
resolveJPath(jp, rootAbs) ==
    LET Relative(rel) ==
            IF IsOutsideRel(rel) THEN [err |-> "ErrJPathOutsideRoot", path |-> Empty]
            ELSE [err |-> "", path |-> rel.path]
        Absolute(absJP) == Relative(Rel(rootAbs, absJP))
    IN  Absolute(Clean(IF ~IsAbs(jp) THEN Join(<<rootAbs, jp>>) ELSE jp))

RECURSIVE processLoop(_, _, _)
processLoop(jps, rootAbs, acc) ==
    LET Resolved(r) ==
            IF r.err # "" THEN [err |-> r.err, paths |-> <<>>]
            ELSE processLoop(Tail(jps), rootAbs, Append(acc, r.path))
        Entry(jp) ==
            IF jp = Empty THEN processLoop(Tail(jps), rootAbs, acc)
            ELSE IF HasNul(jp) THEN [err |-> "ErrInvalidNullByte", paths |-> <<>>]
            ELSE Resolved(resolveJPath(jp, rootAbs))
    IN  IF jps = <<>> THEN [err |-> "", paths |-> acc]
        ELSE Entry(Head(jps))

\* processJPaths without the default "." for a list that ends up empty
processJPathsNoDefault(jpaths, rootAbs) ==
    processLoop(IF jpaths = <<>> THEN <<Dot>> ELSE jpaths, rootAbs, <<>>)

\* processJPaths
processJPaths(jpaths, rootAbs) ==
    LET Cleaned(r) ==
            IF r.err # "" THEN r
            ELSE IF r.paths = <<>> THEN [err |-> "", paths |-> <<Dot>>]
            ELSE r
    IN  Cleaned(processLoop(IF jpaths = <<>> THEN <<Dot>> ELSE jpaths, rootAbs, <<>>))

\* NewSafeImporter without the root.Close() of the failure branch
NewSafeImporterLeaks(wd, rootDir, jpaths) ==
    LET Refused(e, opened, released) ==
            [err |-> e, importer |-> FALSE, paths |-> <<>>, rootAbs |-> Empty,
             opened |-> opened, released |-> released]
        WithJPaths(rootAbs, pj) ==
            IF pj.err # "" THEN Refused(pj.err, 1, 0)
            ELSE [err |-> "", importer |-> TRUE, paths |-> pj.paths, rootAbs |-> rootAbs,
                  opened |-> 1, released |-> 0]
        WithRoot(a) ==
            IF a.err THEN Refused("ErrAbsPath", 0, 0)
            ELSE IF a.path # RootDir THEN Refused("ErrOpenRootDir", 0, 0)
            ELSE WithJPaths(a.path, processJPaths(jpaths, a.path))
    IN  IF rootDir = Empty THEN Refused("ErrEmptyRootDir", 0, 0)
        ELSE WithRoot(Abs(wd, rootDir))

\* NewSafeImporter(rootDir, jpaths) in working directory wd; rootDir exists
\* exactly when it is RootDir.  importer tells whether an importer is
\* returned, opened and released count the root handles that the call
\* opened and closed.
NewSafeImporter(wd, rootDir, jpaths) ==
    LET Refused(e, opened, released) ==
            [err |-> e, importer |-> FALSE, paths |-> <<>>, rootAbs |-> Empty,
             opened |-> opened, released |-> released]
        WithJPaths(rootAbs, pj) ==
            IF pj.err # "" THEN Refused(pj.err, 1, 1)
            ELSE [err |-> "", importer |-> TRUE, paths |-> pj.paths, rootAbs |-> rootAbs,
                  opened |-> 1, released |-> 0]
        WithRoot(a) ==
            IF a.err THEN Refused("ErrAbsPath", 0, 0)
            ELSE IF a.path # RootDir THEN Refused("ErrOpenRootDir", 0, 0)
            ELSE WithJPaths(a.path, processJPaths(jpaths, a.path))
    IN  IF rootDir = Empty THEN Refused("ErrEmptyRootDir", 0, 0)
        ELSE WithRoot(Abs(wd, rootDir))

\* resolveImportPath with the nested candidate built by concatenation, not
\* cleaned
resolveImportPathConcat(wd, importedFrom, importedPath) ==
    LET NoWd == [err |-> "ErrGetwd", path |-> Empty, isAbsImport |-> FALSE]
        Candidate(p) == [err |-> "", path |-> p, isAbsImport |-> FALSE]
        NextTo(dir) == Candidate(AbsP(dir.segs \o importedPath.segs))
        Made(absDir) == IF absDir.err THEN NoWd ELSE NextTo(absDir.path)
        Nested(dir) == IF IsAbs(dir) THEN NextTo(dir) ELSE Made(Abs(wd, dir))
        Initial(abs) == IF abs.err THEN NoWd ELSE Candidate(Clean(abs.path))
    IN  IF IsAbs(importedPath)
        THEN [err |-> "", path |-> Clean(importedPath), isAbsImport |-> TRUE]
        ELSE IF importedFrom # Empty THEN Nested(Dir(importedFrom))
        ELSE Initial(Abs(wd, importedPath))

\* resolveImportPath with an absolute importedPath taken as it is, not cleaned
resolveImportPathNoClean(wd, importedFrom, importedPath) ==
    LET NoWd == [err |-> "ErrGetwd", path |-> Empty, isAbsImport |-> FALSE]
        Candidate(p) == [err |-> "", path |-> p, isAbsImport |-> FALSE]
        NextTo(dir) == Candidate(Clean(Join(<<dir, importedPath>>)))
        Made(absDir) == IF absDir.err THEN NoWd ELSE NextTo(absDir.path)
        Nested(dir) == IF IsAbs(dir) THEN NextTo(dir) ELSE Made(Abs(wd, dir))
        Initial(abs) == IF abs.err THEN NoWd ELSE Candidate(Clean(abs.path))
    IN  IF IsAbs(importedPath)
        THEN [err |-> "", path |-> importedPath, isAbsImport |-> TRUE]
        ELSE IF importedFrom # Empty THEN Nested(Dir(importedFrom))
        ELSE Initial(Abs(wd, importedPath))

\* resolveImportPath: the primary candidate of a request
resolveImportPath(wd, importedFrom, importedPath) ==
    LET NoWd == [err |-> "ErrGetwd", path |-> Empty, isAbsImport |-> FALSE]
        Candidate(p) == [err |-> "", path |-> p, isAbsImport |-> FALSE]
        NextTo(dir) == Candidate(Clean(Join(<<dir, importedPath>>)))
        Made(absDir) == IF absDir.err THEN NoWd ELSE NextTo(absDir.path)
        Nested(dir) == IF IsAbs(dir) THEN NextTo(dir) ELSE Made(Abs(wd, dir))
        Initial(abs) == IF abs.err THEN NoWd ELSE Candidate(Clean(abs.path))
    IN  IF IsAbs(importedPath)
        THEN [err |-> "", path |-> Clean(importedPath), isAbsImport |-> TRUE]
        ELSE IF importedFrom # Empty THEN Nested(Dir(importedFrom))
        ELSE Initial(Abs(wd, importedPath))

\* made tells what the caller holds: "built" (an importer returned by
\* NewSafeImporter), "literal" (a SafeImporter value whose root is nil), "nil"
\* (NewSafeImporter returned no importer) or "none" (nothing yet); opened and
\* released count the root handles opened and the handles given back
\* callers holds the calls of Import that run concurrently, each with its
\* position inside tryAbsPath
\* goos tells whether the filesystem of the platform tells letter case
\* apart ("linux") or not ("darwin", "windows")
VARIABLES JPaths, rootAbsPath, rootClosed, fsCache, fs, cwd, last, ncalls, nfs,
          made, opened, released, callers, goos

vars == <<JPaths, rootAbsPath, rootClosed, fsCache, fs, cwd, last, ncalls, nfs,
          made, opened, released, callers, goos>>

\* cacheEntry
ContentEntry(contents, foundAt) ==
    [kind |-> "content", contents |-> contents, foundAt |-> foundAt]
NotExistEntry == [kind |-> "notexist", contents |-> NoData, foundAt |-> Empty]

\* a Store that drops the entry
StoreNothing(c, k, e) == c

\* a Store that keeps file contents only
StoreContentOnly(c, k, e) == IF e.kind = "content" THEN (k :> e) @@ c ELSE c

\* sync.Map.Store
Store(c, k, e) == (k :> e) @@ c

\* tryAbsPath taking every failed read for a missing file
tryAbsPathErrorsAsMissing(c, f, closed, absPath, relPath) ==
    LET Miss(e, cache, rd) ==
            [found |-> FALSE, contents |-> NoData, foundAt |-> Empty,
             err |-> e, cache |-> cache, reads |-> rd]
        Cached(entry) ==
            IF entry.kind = "content"
            THEN [found |-> TRUE, contents |-> entry.contents, foundAt |-> entry.foundAt,
                  err |-> "", cache |-> c, reads |-> <<>>]
            ELSE Miss("", c, <<>>)
        Opened(r, rd) ==
            IF r.kind # "ok" THEN Miss("", Store(c, absPath, NotExistEntry), rd)
            ELSE [found |-> TRUE, contents |-> r.data, foundAt |-> absPath,
                  err |-> "", cache |-> Store(c, absPath, ContentEntry(r.data, absPath)),
                  reads |-> rd]
        Read(r) == Opened(r, <<[rel |-> relPath, kind |-> r.kind, data |-> r.data]>>)
    IN  IF absPath \in DOMAIN c THEN Cached(c[absPath])
        ELSE Read(RootOpen(f, closed, OpenTarget(relPath)))

\* tryAbsPath reading through the root handle without asking the cache
tryAbsPathUncached(c, f, closed, absPath, relPath) ==
    LET Miss(e, cache, rd) ==
            [found |-> FALSE, contents |-> NoData, foundAt |-> Empty,
             err |-> e, cache |-> cache, reads |-> rd]
        Opened(r, rd) ==
            IF r.kind = "notexist" THEN Miss("", Store(c, absPath, NotExistEntry), rd)
            ELSE IF r.kind = "other" THEN Miss("ErrReadFile", c, rd)
            ELSE [found |-> TRUE, contents |-> r.data, foundAt |-> absPath,
                  err |-> "", cache |-> Store(c, absPath, ContentEntry(r.data, absPath)),
                  reads |-> rd]
        Read(r) == Opened(r, <<[rel |-> relPath, kind |-> r.kind, data |-> r.data]>>)
    IN  Read(RootOpen(f, closed, OpenTarget(relPath)))

\* tryAbsPath reading again where the cache holds a not-exist entry
tryAbsPathRetriesMissing(c, f, closed, absPath, relPath) ==
    LET Miss(e, cache, rd) ==
            [found |-> FALSE, contents |-> NoData, foundAt |-> Empty,
             err |-> e, cache |-> cache, reads |-> rd]
        Cached(entry) ==
            IF entry.kind \notin {"content", "notexist", "stickyerr"}
            THEN Miss("ErrCacheInternalType", c, <<>>)
            ELSE IF entry.kind = "notexist" THEN Miss("", c, <<>>)
            ELSE IF entry.kind = "stickyerr" THEN Miss("StickyError", c, <<>>)
            ELSE [found |-> TRUE, contents |-> entry.contents, foundAt |-> entry.foundAt,
                  err |-> "", cache |-> c, reads |-> <<>>]
        Opened(r, rd) ==
            IF r.kind = "notexist" THEN Miss("", Store(c, absPath, NotExistEntry), rd)
            ELSE IF r.kind = "other" THEN Miss("ErrReadFile", c, rd)
            ELSE [found |-> TRUE, contents |-> r.data, foundAt |-> absPath,
                  err |-> "", cache |-> Store(c, absPath, ContentEntry(r.data, absPath)),
                  reads |-> rd]
        Read(r) == Opened(r, <<[rel |-> relPath, kind |-> r.kind, data |-> r.data]>>)
    IN  IF absPath \in DOMAIN c /\ c[absPath].kind # "notexist" THEN Cached(c[absPath])
        ELSE Read(RootOpen(f, closed, OpenTarget(relPath)))

\* tryAbsPath taking a cache value of the wrong type for a miss
tryAbsPathIgnoresBadEntry(c, f, closed, absPath, relPath) ==
    LET Miss(e, cache, rd) ==
            [found |-> FALSE, contents |-> NoData, foundAt |-> Empty,
             err |-> e, cache |-> cache, reads |-> rd]
        Cached(entry) ==
            IF entry.kind \notin {"content", "notexist", "stickyerr"}
            THEN Miss("ErrCacheInternalType", c, <<>>)
            ELSE IF entry.kind = "notexist" THEN Miss("", c, <<>>)
            ELSE IF entry.kind = "stickyerr" THEN Miss("StickyError", c, <<>>)
            ELSE [found |-> TRUE, contents |-> entry.contents, foundAt |-> entry.foundAt,
                  err |-> "", cache |-> c, reads |-> <<>>]
        Opened(r, rd) ==
            IF r.kind = "notexist" THEN Miss("", Store(c, absPath, NotExistEntry), rd)
            ELSE IF r.kind = "other" THEN Miss("ErrReadFile", c, rd)
            ELSE [found |-> TRUE, contents |-> r.data, foundAt |-> absPath,
                  err |-> "", cache |-> Store(c, absPath, ContentEntry(r.data, absPath)),
                  reads |-> rd]
        Read(r) == Opened(r, <<[rel |-> relPath, kind |-> r.kind, data |-> r.data]>>)
    IN  IF absPath \in DOMAIN c /\ c[absPath].kind \in {"content", "notexist", "stickyerr"}
        THEN Cached(c[absPath])
        ELSE Read(RootOpen(f, closed, OpenTarget(relPath)))

\* tryAbsPath storing the error of a failed read as a cache entry
tryAbsPathCachesErrors(c, f, closed, absPath, relPath) ==
    LET Miss(e, cache, rd) ==
            [found |-> FALSE, contents |-> NoData, foundAt |-> Empty,
             err |-> e, cache |-> cache, reads |-> rd]
        Cached(entry) ==
            IF entry.kind \notin {"content", "notexist", "stickyerr"}
            THEN Miss("ErrCacheInternalType", c, <<>>)
            ELSE IF entry.kind = "notexist" THEN Miss("", c, <<>>)
            ELSE IF entry.kind = "stickyerr" THEN Miss("StickyError", c, <<>>)
            ELSE [found |-> TRUE, contents |-> entry.contents, foundAt |-> entry.foundAt,
                  err |-> "", cache |-> c, reads |-> <<>>]
        Opened(r, rd) ==
            IF r.kind = "notexist" THEN Miss("", Store(c, absPath, NotExistEntry), rd)
            ELSE IF r.kind = "other"
            THEN Miss("ErrReadFile",
                      Store(c, absPath,
                            [kind |-> "stickyerr", contents |-> NoData, foundAt |-> Empty]),
                      rd)
            ELSE [found |-> TRUE, contents |-> r.data, foundAt |-> absPath,
                  err |-> "", cache |-> Store(c, absPath, ContentEntry(r.data, absPath)),
                  reads |-> rd]
        Read(r) == Opened(r, <<[rel |-> relPath, kind |-> r.kind, data |-> r.data]>>)
    IN  IF absPath \in DOMAIN c THEN Cached(c[absPath])
        ELSE Read(RootOpen(f, closed, OpenTarget(relPath)))

\* tryAbsPath reporting and storing the root-relative path as foundAt
tryAbsPathFoundAtRelative(c, f, closed, absPath, relPath) ==
    LET Miss(e, cache, rd) ==
            [found |-> FALSE, contents |-> NoData, foundAt |-> Empty,
             err |-> e, cache |-> cache, reads |-> rd]
        Cached(entry) ==
            IF entry.kind \notin {"content", "notexist", "stickyerr"}
            THEN Miss("ErrCacheInternalType", c, <<>>)
            ELSE IF entry.kind = "notexist" THEN Miss("", c, <<>>)
            ELSE IF entry.kind = "stickyerr" THEN Miss("StickyError", c, <<>>)
            ELSE [found |-> TRUE, contents |-> entry.contents, foundAt |-> entry.foundAt,
                  err |-> "", cache |-> c, reads |-> <<>>]
        Opened(r, rd) ==
            IF r.kind = "notexist" THEN Miss("", Store(c, absPath, NotExistEntry), rd)
            ELSE IF r.kind = "other" THEN Miss("ErrReadFile", c, rd)
            ELSE [found |-> TRUE, contents |-> r.data, foundAt |-> relPath,
                  err |-> "", cache |-> Store(c, absPath, ContentEntry(r.data, relPath)),
                  reads |-> rd]
        Read(r) == Opened(r, <<[rel |-> relPath, kind |-> r.kind, data |-> r.data]>>)
    IN  IF absPath \in DOMAIN c THEN Cached(c[absPath])
        ELSE Read(RootOpen(f, closed, OpenTarget(relPath)))

\* tryAbsPath opening its candidate twice
tryAbsPathOpensTwice(c, f, closed, absPath, relPath) ==
    LET Miss(e, cache, rd) ==
            [found |-> FALSE, contents |-> NoData, foundAt |-> Empty,
             err |-> e, cache |-> cache, reads |-> rd]
        Cached(entry) ==
            IF entry.kind \notin {"content", "notexist", "stickyerr"}
            THEN Miss("ErrCacheInternalType", c, <<>>)
            ELSE IF entry.kind = "notexist" THEN Miss("", c, <<>>)
            ELSE IF entry.kind = "stickyerr" THEN Miss("StickyError", c, <<>>)
            ELSE [found |-> TRUE, contents |-> entry.contents, foundAt |-> entry.foundAt,
                  err |-> "", cache |-> c, reads |-> <<>>]
        Opened(r, rd) ==
            IF r.kind = "notexist" THEN Miss("", Store(c, absPath, NotExistEntry), rd)
            ELSE IF r.kind = "other" THEN Miss("ErrReadFile", c, rd)
            ELSE [found |-> TRUE, contents |-> r.data, foundAt |-> absPath,
                  err |-> "", cache |-> Store(c, absPath, ContentEntry(r.data, absPath)),
                  reads |-> rd]
        Read(r) == Opened(r, <<[rel |-> relPath, kind |-> r.kind, data |-> r.data],
                               [rel |-> relPath, kind |-> r.kind, data |-> r.data]>>)
    IN  IF absPath \in DOMAIN c THEN Cached(c[absPath])
        ELSE Read(RootOpen(f, closed, OpenTarget(relPath)))

\* tryAbsPath: answer from the cache, or read through the root handle and
\* store the outcome.  reads is the sequence of reads performed.
tryAbsPath(c, f, closed, absPath, relPath) ==
    LET Miss(e, cache, rd) ==
            [found |-> FALSE, contents |-> NoData, foundAt |-> Empty,
             err |-> e, cache |-> cache, reads |-> rd]
        Cached(entry) ==
            IF entry.kind \notin {"content", "notexist", "stickyerr"}
            THEN Miss("ErrCacheInternalType", c, <<>>)
            ELSE IF entry.kind = "notexist" THEN Miss("", c, <<>>)
            ELSE IF entry.kind = "stickyerr" THEN Miss("StickyError", c, <<>>)
            ELSE [found |-> TRUE, contents |-> entry.contents, foundAt |-> entry.foundAt,
                  err |-> "", cache |-> c, reads |-> <<>>]
        Opened(r, rd) ==
            IF r.kind = "notexist" THEN Miss("", Store(c, absPath, NotExistEntry), rd)
            ELSE IF r.kind = "other" THEN Miss("ErrReadFile", c, rd)
            ELSE [found |-> TRUE, contents |-> r.data, foundAt |-> absPath,
                  err |-> "", cache |-> Store(c, absPath, ContentEntry(r.data, absPath)),
                  reads |-> rd]
        Read(r) == Opened(r, <<[rel |-> relPath, kind |-> r.kind, data |-> r.data]>>)
    IN  IF absPath \in DOMAIN c THEN Cached(c[absPath])
        ELSE Read(RootOpen(f, closed, OpenTarget(relPath)))

\* the outcome of one call of Import: the returned triple, the cache after the
\* call, and a record of what the call did (reads performed, candidates
\* handed to tryAbsPath, library search entered and with which list)
Outcome(status, contents, foundAt, c, reads, tried, searched, searchPaths) ==
    [status |-> status, contents |-> contents, foundAt |-> foundAt, cache |-> c,
     reads |-> reads, tried |-> tried, searched |-> searched,
     searchPaths |-> searchPaths]

Failure(err, c, reads, tried) == Outcome(err, NoData, Empty, c, reads, tried, FALSE, <<>>)

\* outsideError reporting a missing file for a candidate outside root
outsideErrorNotFound(isAbsImport, importedFrom) ==
    IF isAbsImport THEN "ErrFileNotFound"
    ELSE IF importedFrom # Empty THEN "ErrFileNotFound"
    ELSE ""

\* outsideError with an absolute import outside root falling back to the
\* library search
outsideErrorAbsFallsBack(isAbsImport, importedFrom) ==
    IF isAbsImport THEN ""
    ELSE IF importedFrom # Empty THEN "ErrForbiddenRelativePathTraversal"
    ELSE ""

\* outsideError with a nested traversal falling back to the library search
outsideErrorNestedFallsBack(isAbsImport, importedFrom) ==
    IF isAbsImport THEN "ErrForbiddenAbsolutePath" ELSE ""

\* outsideError with an initial import outside root refused like a nested one
outsideErrorInitialRefused(isAbsImport, importedFrom) ==
    IF isAbsImport THEN "ErrForbiddenAbsolutePath"
    ELSE "ErrForbiddenRelativePathTraversal"

\* the branch of tryPrimaryImport for a primary candidate outside root: the
\* error returned, or "" when the request falls back to the library search
outsideError(isAbsImport, importedFrom) ==
    IF isAbsImport THEN "ErrForbiddenAbsolutePath"
    ELSE IF importedFrom # Empty THEN "ErrForbiddenRelativePathTraversal"
    ELSE ""

\* tryPrimaryImport with the cache key made from importedPath as it was given
tryPrimaryImportKeyedAsGiven(c, f, closed, wd, rootAbs, importedFrom, importedPath) ==
    LET Tried(t, tr) ==
            IF t.err # "" THEN [found |-> FALSE, out |-> Failure(t.err, t.cache, t.reads, tr)]
            ELSE [found |-> t.found,
                  out |-> Outcome(IF t.found THEN "ok" ELSE "", t.contents, t.foundAt,
                                  t.cache, t.reads, tr, FALSE, <<>>)]
        Inside(primaryCandidate, rel) ==
            Tried(tryAbsPath(c, f, closed,
                             IF IsAbs(importedPath) THEN importedPath
                             ELSE AbsP(Dir(primaryCandidate).segs \o importedPath.segs),
                             rel),
                  <<[abs |-> primaryCandidate, rel |-> rel, dir |-> Empty]>>)
        Candidate(primaryCandidate, isAbsImport, rel) ==
            IF IsOutsideRel(rel)
            THEN [found |-> FALSE,
                  out |-> Failure(outsideError(isAbsImport, importedFrom), c, <<>>, <<>>)]
            ELSE Inside(primaryCandidate, rel.path)
        Resolved(rp) ==
            IF rp.err # "" THEN [found |-> FALSE, out |-> Failure(rp.err, c, <<>>, <<>>)]
            ELSE Candidate(rp.path, rp.isAbsImport, Rel(rootAbs, rp.path))
    IN  Resolved(resolveImportPath(wd, importedFrom, importedPath))

\* tryPrimaryImport leaving a not-exist entry for a candidate it refuses
tryPrimaryImportCachesRefusal(c, f, closed, wd, rootAbs, importedFrom, importedPath) ==
    LET Tried(t, tr) ==
            IF t.err # "" THEN [found |-> FALSE, out |-> Failure(t.err, t.cache, t.reads, tr)]
            ELSE [found |-> t.found,
                  out |-> Outcome(IF t.found THEN "ok" ELSE "", t.contents, t.foundAt,
                                  t.cache, t.reads, tr, FALSE, <<>>)]
        Inside(primaryCandidate, rel) ==
            Tried(tryAbsPath(c, f, closed, primaryCandidate, rel),
                  <<[abs |-> primaryCandidate, rel |-> rel, dir |-> Empty]>>)
        Candidate(primaryCandidate, isAbsImport, rel) ==
            IF IsOutsideRel(rel)
            THEN [found |-> FALSE,
                  out |-> Failure(outsideError(isAbsImport, importedFrom),
                                  IF outsideError(isAbsImport, importedFrom) = "" THEN c
                                  ELSE Store(c, primaryCandidate, NotExistEntry),
                                  <<>>, <<>>)]
            ELSE Inside(primaryCandidate, rel.path)
        Resolved(rp) ==
            IF rp.err # "" THEN [found |-> FALSE, out |-> Failure(rp.err, c, <<>>, <<>>)]
            ELSE Candidate(rp.path, rp.isAbsImport, Rel(rootAbs, rp.path))
    IN  Resolved(resolveImportPath(wd, importedFrom, importedPath))

\* tryPrimaryImport; found tells whether the primary candidate answered
tryPrimaryImport(c, f, closed, wd, rootAbs, importedFrom, importedPath) ==
    LET Tried(t, tr) ==
            IF t.err # "" THEN [found |-> FALSE, out |-> Failure(t.err, t.cache, t.reads, tr)]
            ELSE [found |-> t.found,
                  out |-> Outcome(IF t.found THEN "ok" ELSE "", t.contents, t.foundAt,
                                  t.cache, t.reads, tr, FALSE, <<>>)]
        Inside(primaryCandidate, rel) ==
            Tried(tryAbsPath(c, f, closed, primaryCandidate, rel),
                  <<[abs |-> primaryCandidate, rel |-> rel, dir |-> Empty]>>)
        Candidate(primaryCandidate, isAbsImport, rel) ==
            IF IsOutsideRel(rel)
            THEN [found |-> FALSE,
                  out |-> Failure(outsideError(isAbsImport, importedFrom), c, <<>>, <<>>)]
            ELSE Inside(primaryCandidate, rel.path)
        Resolved(rp) ==
            IF rp.err # "" THEN [found |-> FALSE, out |-> Failure(rp.err, c, <<>>, <<>>)]
            ELSE Candidate(rp.path, rp.isAbsImport, Rel(rootAbs, rp.path))
    IN  Resolved(resolveImportPath(wd, importedFrom, importedPath))

\* ensureDotInSearchPaths with "." put in front whatever the list holds
ensureDotAlways(paths) == <<Dot>> \o paths

\* ensureDotInSearchPaths with "." added behind the configured paths
ensureDotAppended(paths) ==
    IF \E i \in 1..Len(paths) : paths[i] = Dot THEN paths ELSE paths \o <<Dot>>

\* ensureDotInSearchPaths
ensureDotInSearchPaths(paths) ==
    IF \E i \in 1..Len(paths) : paths[i] = Dot THEN paths ELSE <<Dot>> \o paths

\* the head of searchJPaths writing the list with "." back to the importer
searchPathsWrittenBack(jpaths, importedFrom) ==
    [searchPaths |-> IF importedFrom = Empty THEN ensureDotInSearchPaths(jpaths) ELSE jpaths,
     JPaths |-> IF importedFrom = Empty THEN ensureDotInSearchPaths(jpaths) ELSE jpaths]

\* the head of searchJPaths: the local searchPaths it iterates over, and the
\* importer's JPaths field after it.  The list with "." is built by an append
\* to a new one-element slice, so it shares no storage with the field.
searchPathsOf(jpaths, importedFrom) ==
    [searchPaths |-> IF importedFrom = Empty THEN ensureDotInSearchPaths(jpaths) ELSE jpaths,
     JPaths |-> jpaths]

RECURSIVE searchLoop(_, _, _, _, _, _, _, _, _)

\* the loop of searchJPaths leaving the search at a candidate outside root
searchLoopStopsOutside(c, f, closed, rootAbs, importedPath, rest, reads, tried, all) ==
    LET Tried(t, tr) ==
            IF t.err # ""
            THEN Outcome(t.err, NoData, Empty, t.cache, reads \o t.reads, tr, TRUE, all)
            ELSE IF t.found
            THEN Outcome("ok", t.contents, t.foundAt, t.cache, reads \o t.reads, tr, TRUE, all)
            ELSE searchLoop(t.cache, f, closed, rootAbs, importedPath, Tail(rest),
                            reads \o t.reads, tr, all)
        Inside(jp, candidate, rel) ==
            Tried(tryAbsPath(c, f, closed, candidate, rel),
                  Append(tried, [abs |-> candidate, rel |-> rel, dir |-> jp]))
        Candidate(jp, candidate, rel) ==
            IF IsOutsideRel(rel)
            THEN Outcome("ErrFileNotFound", NoData, Empty, c, reads, tried, TRUE, all)
            ELSE Inside(jp, candidate, rel.path)
        Joined(jp, candidate) == Candidate(jp, candidate, Rel(rootAbs, candidate))
        SearchDir(jp) == Joined(jp, Clean(Join(<<rootAbs, jp, importedPath>>)))
    IN  IF rest = <<>>
        THEN Outcome("ErrFileNotFound", NoData, Empty, c, reads, tried, TRUE, all)
        ELSE SearchDir(Head(rest))

\* the loop of searchJPaths over the remaining search directories
searchLoop(c, f, closed, rootAbs, importedPath, rest, reads, tried, all) ==
    LET Tried(t, tr) ==
            IF t.err # ""
            THEN Outcome(t.err, NoData, Empty, t.cache, reads \o t.reads, tr, TRUE, all)
            ELSE IF t.found
            THEN Outcome("ok", t.contents, t.foundAt, t.cache, reads \o t.reads, tr, TRUE, all)
            ELSE searchLoop(t.cache, f, closed, rootAbs, importedPath, Tail(rest),
                            reads \o t.reads, tr, all)
        Inside(jp, candidate, rel) ==
            Tried(tryAbsPath(c, f, closed, candidate, rel),
                  Append(tried, [abs |-> candidate, rel |-> rel, dir |-> jp]))
        Candidate(jp, candidate, rel) ==
            IF IsOutsideRel(rel)
            THEN searchLoop(c, f, closed, rootAbs, importedPath, Tail(rest), reads, tried, all)
            ELSE Inside(jp, candidate, rel.path)
        Joined(jp, candidate) == Candidate(jp, candidate, Rel(rootAbs, candidate))
        SearchDir(jp) == Joined(jp, Clean(Join(<<rootAbs, jp, importedPath>>)))
    IN  IF rest = <<>>
        THEN Outcome("ErrFileNotFound", NoData, Empty, c, reads, tried, TRUE, all)
        ELSE SearchDir(Head(rest))

\* searchJPaths giving up after the first search directory
searchJPathsFirstOnly(c, f, closed, rootAbs, jpaths, importedFrom, importedPath, reads, tried) ==
    LET Search(searchPaths) ==
            searchLoop(c, f, closed, rootAbs, importedPath, SubSeq(searchPaths, 1, 1), reads,
                       tried, searchPaths)
    IN  Search(IF importedFrom = Empty THEN ensureDotInSearchPaths(jpaths) ELSE jpaths)

\* searchJPaths
searchJPaths(c, f, closed, rootAbs, jpaths, importedFrom, importedPath, reads, tried) ==
    LET Search(searchPaths) ==
            searchLoop(c, f, closed, rootAbs, importedPath, searchPaths, reads, tried,
                       searchPaths)
    IN  Search(IF importedFrom = Empty THEN ensureDotInSearchPaths(jpaths) ELSE jpaths)

\* Import testing only importedPath for a null byte
ImportOutcomeNulPathOnly(c, f, closed, wd, rootAbs, jpaths, importedFrom, importedPath) ==
    LET Primary(p) ==
            IF p.out.status \notin {"", "ok"} THEN p.out
            ELSE IF p.found THEN p.out
            ELSE searchJPaths(p.out.cache, f, closed, rootAbs, jpaths, importedFrom,
                              importedPath, p.out.reads, p.out.tried)
    IN  IF HasNul(importedPath)
        THEN Failure("ErrInvalidNullByte", c, <<>>, <<>>)
        ELSE Primary(tryPrimaryImport(c, f, closed, wd, rootAbs, importedFrom, importedPath))

\* Import without the return on a primary candidate that was found
ImportOutcomeAlwaysSearches(c, f, closed, wd, rootAbs, jpaths, importedFrom, importedPath) ==
    LET Primary(p) ==
            IF p.out.status \notin {"", "ok"} THEN p.out
            ELSE searchJPaths(p.out.cache, f, closed, rootAbs, jpaths, importedFrom,
                              importedPath, p.out.reads, p.out.tried)
    IN  IF HasNul(importedPath) \/ HasNul(importedFrom)
        THEN Failure("ErrInvalidNullByte", c, <<>>, <<>>)
        ELSE Primary(tryPrimaryImport(c, f, closed, wd, rootAbs, importedFrom, importedPath))

\* Import ending the call when an absolute importedPath was not found at
\* its own location
ImportOutcomeAbsoluteNoSearch(c, f, closed, wd, rootAbs, jpaths, importedFrom, importedPath) ==
    LET Primary(p) ==
            IF p.out.status \notin {"", "ok"} THEN p.out
            ELSE IF p.found THEN p.out
            ELSE IF IsAbs(importedPath)
            THEN Failure("ErrFileNotFound", p.out.cache, p.out.reads, p.out.tried)
            ELSE searchJPaths(p.out.cache, f, closed, rootAbs, jpaths, importedFrom,
                              importedPath, p.out.reads, p.out.tried)
    IN  IF HasNul(importedPath) \/ HasNul(importedFrom)
        THEN Failure("ErrInvalidNullByte", c, <<>>, <<>>)
        ELSE Primary(tryPrimaryImport(c, f, closed, wd, rootAbs, importedFrom, importedPath))

\* Import
ImportOutcome(c, f, closed, wd, rootAbs, jpaths, importedFrom, importedPath) ==
    LET Primary(p) ==
            IF p.out.status \notin {"", "ok"} THEN p.out
            ELSE IF p.found THEN p.out
            ELSE searchJPaths(p.out.cache, f, closed, rootAbs, jpaths, importedFrom,
                              importedPath, p.out.reads, p.out.tried)
    IN  IF HasNul(importedPath) \/ HasNul(importedFrom)
        THEN Failure("ErrInvalidNullByte", c, <<>>, <<>>)
        ELSE Primary(tryPrimaryImport(c, f, closed, wd, rootAbs, importedFrom, importedPath))

\* ------------------------------------------------------------------------
\* State machine
\* ------------------------------------------------------------------------
NoCall ==
    [op |-> "none", from |-> Empty, path |-> Empty, status |-> "", contents |-> NoData,
     foundAt |-> Empty, reads |-> <<>>, tried |-> <<>>, searched |-> FALSE,
     searchPaths |-> <<>>]

\* the state after a successful NewSafeImporter(RootDir, jpaths)
Init ==
    /\ cwd \in Cwds
    /\ \E jpaths \in JPathConfigs :
          \E n \in {NewSafeImporter(cwd, RootDir, jpaths)} :
              /\ n.err = ""
              /\ JPaths = n.paths
              /\ rootAbsPath = n.rootAbs
              /\ opened = n.opened
              /\ released = n.released
    /\ made = "built"
    /\ callers = << >>
    /\ rootClosed = FALSE
    /\ fsCache = << >>
    /\ fs \in [Slots -> NodeKinds]
    /\ fs[RootFile] \in {Absent, SymOut, File(Data(RootFile, 1))}
    /\ fs[LibFile] \in {Absent, File(Data(LibFile, 1))}
    /\ last = NoCall
    /\ ncalls = 0
    /\ nfs = 0
    /\ goos = "linux"

\* one call of Import(importedFrom, importedPath)
Import(importedFrom, importedPath) ==
    /\ ncalls < MaxCalls
    /\ \E o \in {ImportOutcome(fsCache, fs, rootClosed, cwd, rootAbsPath, JPaths,
                               importedFrom, importedPath)} :
          /\ fsCache' = o.cache
          /\ last' = [op |-> "import", from |-> importedFrom, path |-> importedPath,
                      status |-> o.status, contents |-> o.contents,
                      foundAt |-> o.foundAt, reads |-> o.reads, tried |-> o.tried,
                      searched |-> o.searched, searchPaths |-> o.searchPaths]
          /\ JPaths' = IF o.searched THEN searchPathsOf(JPaths, importedFrom).JPaths
                       ELSE JPaths
    /\ ncalls' = ncalls + 1
    /\ UNCHANGED <<rootAbsPath, rootClosed, fs, cwd, nfs, made, opened, released,
                   callers, goos>>

\* os.Root.Close with an error for a handle that is closed already
RootCloseOnce(closed, rel) ==
    [err |-> IF closed THEN "ErrClosed" ELSE "", closed |-> TRUE,
     released |-> IF closed THEN rel ELSE rel + 1]

\* os.Root.Close: gives the descriptor back unless that was done before,
\* and returns nil
RootClose(closed, rel) ==
    [err |-> "", closed |-> TRUE, released |-> IF closed THEN rel ELSE rel + 1]

\* SafeImporter.Close
CloseOutcome(rootNil, closed, rel) ==
    IF ~rootNil THEN RootClose(closed, rel)
    ELSE [err |-> "", closed |-> closed, released |-> rel]

\* Close
Close ==
    /\ \E o \in {CloseOutcome(made = "literal", rootClosed, released)} :
          /\ rootClosed' = o.closed
          /\ released' = o.released
          /\ last' = [NoCall EXCEPT !.op = "close", !.status = o.err]
    /\ UNCHANGED <<JPaths, rootAbsPath, fsCache, fs, cwd, ncalls, nfs, made, opened, callers, goos>>

\* the environment removes a file that the importer has looked up before,
\* writes it anew, or (next to root) replaces it by a symbolic link to the
\* outside, while a call that could observe the change is still to come;
\* the condition of the files not looked up yet is chosen in Init
FsChange(s, k) ==
    /\ nfs < MaxFsOps
    /\ ncalls < MaxCalls
    /\ s \in DOMAIN fsCache
    /\ k \in {Absent, File(Data(s, 2))} \cup (IF s = RootFile THEN {SymOut} ELSE {})
    /\ fs[s] # k
    /\ fs' = [fs EXCEPT ![s] = k]
    /\ nfs' = nfs + 1
    /\ UNCHANGED <<JPaths, rootAbsPath, rootClosed, fsCache, cwd, last, ncalls,
                   made, opened, released, callers, goos>>

Next ==
    \/ \E r \in Requests : Import(r[1], r[2])
    \/ Close
    \/ \E s \in Slots, k \in NodeKinds : FsChange(s, k)

Spec == Init /\ [][Next]_vars

\* ------------------------------------------------------------------------
\* Construction and Close
\* ------------------------------------------------------------------------
MaxCloses == 2

\* the rootDir arguments: empty, the root by its absolute name and by a
\* relative one, and a directory that does not exist
RootDirInputs == {Empty, RootDir, RelP(<<"..", "r">>), AbsP(<<"nodir">>)}

\* working directories of the constructor, Getwd failing included
CtorCwds == Cwds \cup {NoCwd}

\* library path lists given to the constructor
CtorJPaths ==
    JPathConfigs \cup
    { <<Empty, Empty>>,
      <<RelP(<<"sub">>), Empty, RelP(<<"lib">>)>>,
      <<RelP(<<"sub", "..", "lib">>), AbsP(<<"r", "sub", ".">>)>>,
      <<RelP(<<"lib", "..", "..">>)>>,
      <<RelP(<<"nul0">>)>>,
      <<RelP(<<"lib">>), RelP(<<"nul0">>), OutDir>>,
      <<RelP(<<"..x">>)>>,
      <<RelP(<<"..", "r", "lib">>)>> }

\* nothing is constructed yet
LifeInit ==
    /\ cwd \in CtorCwds
    /\ made = "none"
    /\ opened = 0
    /\ released = 0
    /\ JPaths = <<>>
    /\ rootAbsPath = Empty
    /\ rootClosed = FALSE
    /\ fsCache = << >>
    /\ fs = [s \in Slots |-> Absent]
    /\ last = [op |-> "none"]
    /\ callers = << >>
    /\ ncalls = 0
    /\ nfs = 0
    /\ goos = "linux"

\* one call of NewSafeImporter(rootDir, jpaths)
New(rootDir, jpaths) ==
    /\ made = "none"
    /\ \E n \in {NewSafeImporter(cwd, rootDir, jpaths)} :
          /\ made' = IF n.importer THEN "built" ELSE "nil"
          /\ JPaths' = n.paths
          /\ rootAbsPath' = n.rootAbs
          /\ opened' = opened + n.opened
          /\ released' = released + n.released
          /\ last' = [op |-> "new", rootDir |-> rootDir, jpaths |-> jpaths, err |-> n.err]
    /\ UNCHANGED <<rootClosed, fsCache, fs, cwd, ncalls, nfs, callers, goos>>

\* the caller makes a SafeImporter value without a root handle
Literal ==
    /\ made = "none"
    /\ made' = "literal"
    /\ JPaths' = <<Dot>>
    /\ last' = [op |-> "literal"]
    /\ UNCHANGED <<rootAbsPath, rootClosed, fsCache, fs, cwd, ncalls, nfs, opened, released,
                   callers, goos>>

\* one call of Close on the importer that the caller holds, counted
CloseCall ==
    /\ made \in {"built", "literal"}
    /\ ncalls < MaxCloses
    /\ \E o \in {CloseOutcome(made = "literal", rootClosed, released)} :
          /\ rootClosed' = o.closed
          /\ released' = o.released
          /\ last' = [op |-> "close", err |-> o.err]
    /\ ncalls' = ncalls + 1
    /\ UNCHANGED <<JPaths, rootAbsPath, fsCache, fs, cwd, nfs, made, opened, callers, goos>>

LifeNext ==
    \/ \E rootDir \in RootDirInputs, jpaths \in CtorJPaths : New(rootDir, jpaths)
    \/ Literal
    \/ CloseCall

LifeSpec == LifeInit /\ [][LifeNext]_vars

\* ------------------------------------------------------------------------
\* Concurrent calls of Import
\* ------------------------------------------------------------------------
MaxCallers == 2

\* the requests that the concurrent callers make
ConcRequests ==
    { <<Empty, AbsP(<<"r", ".", "a">>)>>,
      <<SubMain, RelP(<<"a">>)>> }

NoFiles == [s \in Slots |-> Absent]

\* the calls of tryAbsPath that one call of Import makes when every one of
\* them answers "no file" (the primary candidate, then the candidates of the
\* search directories), and the status it ends in after the last of them
Plan(wd, rootAbs, jpaths, importedFrom, importedPath) ==
    LET Walk(o) == [cands |-> o.tried, end |-> o.status]
    IN  Walk(ImportOutcome(<< >>, NoFiles, FALSE, wd, rootAbs, jpaths, importedFrom,
                           importedPath))

\* a caller that has entered Import: pc is its position in tryAbsPath for
\* candidate k ("load": before the cache lookup, "open": before the read,
\* "store": before the Store, "done": Import has returned); got is what the
\* read returned; reads counts its reads, lateStore tells whether it stored
\* with the handle closed; want is what a call alone would have returned
Caller(importedFrom, importedPath, plan, alone) ==
    [pc |-> IF plan.cands = <<>> THEN "done" ELSE "load",
     from |-> importedFrom, path |-> importedPath,
     cands |-> plan.cands, end |-> plan.end, k |-> 1,
     got |-> [kind |-> "", data |-> NoData],
     status |-> IF plan.cands = <<>> THEN plan.end ELSE "",
     contents |-> NoData, foundAt |-> Empty,
     reads |-> << >>, lateStore |-> FALSE,
     want |-> [status |-> alone.status, contents |-> alone.contents,
               foundAt |-> alone.foundAt]]

\* found = false without error: Import goes on to the next candidate, or
\* returns at the end of searchJPaths
NextCandidate(c) ==
    IF c.k = Len(c.cands) THEN [c EXCEPT !.pc = "done", !.status = c.end]
    ELSE [c EXCEPT !.pc = "load", !.k = c.k + 1]

Returned(c, status, contents, foundAt) ==
    [c EXCEPT !.pc = "done", !.status = status, !.contents = contents,
              !.foundAt = foundAt]

\* the cache lookup of tryAbsPath without the lookup
LoadOutcomeSkipsCache(c, cache) == [c EXCEPT !.pc = "open"]

\* the cache lookup of tryAbsPath
LoadOutcome(c, cache) ==
    LET Cached(entry) ==
            IF entry.kind = "content"
            THEN Returned(c, "ok", entry.contents, entry.foundAt)
            ELSE IF entry.kind = "notexist" THEN NextCandidate(c)
            ELSE Returned(c, "ErrCacheInternalType", NoData, Empty)
        Key(absPath) ==
            IF absPath \in DOMAIN cache THEN Cached(cache[absPath])
            ELSE [c EXCEPT !.pc = "open"]
    IN  Key(c.cands[c.k].abs)

\* the read of tryAbsPath taking every failure for a missing file
OpenOutcomeErrorsAsMissing(c, f, closed) ==
    LET Opened(r) ==
            [c EXCEPT !.pc = "store", !.reads = Append(c.reads, c.cands[c.k].abs),
                      !.got = IF r.kind = "other"
                              THEN [kind |-> "notexist", data |-> NoData] ELSE r]
    IN  Opened(RootOpen(f, closed, OpenTarget(c.cands[c.k].rel)))

\* s.root.Open and io.ReadAll of tryAbsPath
OpenOutcome(c, f, closed) ==
    LET Opened(r) ==
            IF r.kind = "other"
            THEN [Returned(c, "ErrReadFile", NoData, Empty) EXCEPT !.reads = Append(c.reads, c.cands[c.k].abs)]
            ELSE [c EXCEPT !.pc = "store", !.got = r, !.reads = Append(c.reads, c.cands[c.k].abs)]
    IN  Opened(RootOpen(f, closed, OpenTarget(c.cands[c.k].rel)))

\* the Store of tryAbsPath and its return
StoreOutcome(c, cache, closed) ==
    LET Stored(absPath, d) ==
            IF d.got.kind = "notexist"
            THEN [caller |-> NextCandidate(d),
                  cache |-> Store(cache, absPath, NotExistEntry)]
            ELSE [caller |-> Returned(d, "ok", d.got.data, absPath),
                  cache |-> Store(cache, absPath, ContentEntry(d.got.data, absPath))]
    IN  Stored(c.cands[c.k].abs, [c EXCEPT !.lateStore = c.lateStore \/ closed])

\* N callers have entered Import with the same request on one importer
ConcInit ==
    /\ cwd = OutDir
    /\ \E jpaths \in JPathConfigs :
          \E n \in {NewSafeImporter(cwd, RootDir, jpaths)} :
              /\ n.err = ""
              /\ JPaths = n.paths
              /\ rootAbsPath = n.rootAbs
              /\ opened = n.opened
              /\ released = n.released
    /\ made = "built"
    /\ rootClosed = FALSE
    /\ fsCache = << >>
    /\ fs \in [Slots -> NodeKinds]
    /\ fs[RootFile] \in {Absent, File(Data(RootFile, 1))}
    /\ fs[LibFile] \in {Absent, File(Data(LibFile, 1))}
    /\ last = NoCall
    /\ ncalls = 0
    /\ nfs = 0
    /\ goos = "linux"
    /\ \E r \in ConcRequests :
          \E c \in {Caller(r[1], r[2], Plan(cwd, rootAbsPath, JPaths, r[1], r[2]),
                            ImportOutcome(<< >>, fs, FALSE, cwd, rootAbsPath, JPaths,
                                          r[1], r[2]))} :
              callers = [i \in 1..MaxCallers |-> c]

\* caller i looks its candidate up in the cache
Load(i) ==
    /\ callers[i].pc = "load"
    /\ callers' = [callers EXCEPT ![i] = LoadOutcome(callers[i], fsCache)]
    /\ JPaths' = IF callers[i].cands[callers[i].k].dir # Empty
                 THEN searchPathsOf(JPaths, callers[i].from).JPaths
                 ELSE JPaths
    /\ UNCHANGED <<rootAbsPath, rootClosed, fsCache, fs, cwd, last, ncalls, nfs,
                   made, opened, released, goos>>

\* caller i reads its candidate through the root handle
Open(i) ==
    /\ callers[i].pc = "open"
    /\ callers' = [callers EXCEPT ![i] = OpenOutcome(callers[i], fs, rootClosed)]
    /\ UNCHANGED <<JPaths, rootAbsPath, rootClosed, fsCache, fs, cwd, last, ncalls, nfs,
                   made, opened, released, goos>>

\* caller i stores what it read and returns or goes on
StoreRead(i) ==
    /\ callers[i].pc = "store"
    /\ \E o \in {StoreOutcome(callers[i], fsCache, rootClosed)} :
          /\ callers' = [callers EXCEPT ![i] = o.caller]
          /\ fsCache' = o.cache
    /\ UNCHANGED <<JPaths, rootAbsPath, rootClosed, fs, cwd, last, ncalls, nfs,
                   made, opened, released, goos>>

\* the environment removes a file that some caller has read and stored
Remove(s) ==
    /\ s \in DOMAIN fsCache
    /\ fs[s].kind = "file"
    /\ fs' = [fs EXCEPT ![s] = Absent]
    /\ UNCHANGED <<JPaths, rootAbsPath, rootClosed, fsCache, cwd, last, ncalls, nfs,
                   made, opened, released, callers, goos>>

ConcNext ==
    \/ \E i \in 1..MaxCallers : Load(i)
    \/ \E i \in 1..MaxCallers : Open(i)
    \/ \E i \in 1..MaxCallers : StoreRead(i)
    \/ Close
    \/ \E s \in Slots : Remove(s)

ConcSpec == ConcInit /\ [][ConcNext]_vars

\* ------------------------------------------------------------------------
\* Vocabulary of the properties
\* ------------------------------------------------------------------------
\* p is the root or a descendant of the root, in cleaned absolute form
InsideRoot(p) == p.abs /\ Clean(p) = p /\ IsPrefix(RootDir.segs, p.segs)

HasDotDotSegment(p) == \E i \in 1..Len(p.segs) : p.segs[i] = ".."

\* a request in the sense of the data model: no argument holds a null byte
ValidRequest(from, path) == ~HasNul(from) /\ ~HasNul(path)

\* the step is one call of Import
ImportStep == ncalls' = ncalls + 1

ForbiddenErrors == {"ErrForbiddenAbsolutePath", "ErrForbiddenRelativePathTraversal"}

\* the absolute location a request names, before the test against root
AbsDirOf(from) == IF Dir(from).abs THEN Dir(from) ELSE Join(<<cwd, Dir(from)>>)
PrimaryTarget(from, path) ==
    IF path.abs THEN Clean(path)
    ELSE IF from # Empty THEN Clean(Join(<<AbsDirOf(from), path>>))
    ELSE Join(<<cwd, path>>)

\* the search directories of a request, and the candidate of one of them
EffectiveDirs(from) ==
    IF from = Empty /\ ~\E i \in 1..Len(JPaths) : JPaths[i] = Dot
    THEN <<Dot>> \o JPaths
    ELSE JPaths
LibCandidate(jp, path) == Clean(Join(<<rootAbsPath, jp, path>>))

\* before the call, location c answers with a file: from the cache, or from
\* the filesystem when the cache has no entry for it
HoldsFile(c) ==
    /\ InsideRoot(c)
    /\ IF c \in DOMAIN fsCache THEN fsCache[c].kind = "content"
       ELSE ~rootClosed /\ c \in Slots /\ fs[c].kind = "file"
ContentOf(c) == IF c \in DOMAIN fsCache THEN fsCache[c].contents ELSE fs[c].data

\* before the call, nothing exists at location c of the filesystem
NotExists(c) ==
    /\ c \notin Dirs
    /\ c \in Slots => fs[c].kind = "absent"
    /\ \A s \in Slots : (IsPrefix(s.segs, c.segs) /\ s # c) => fs[s].kind = "absent"

\* before the call, location c answers "no file": outside root, or known to
\* the cache as not existing, or not cached and not existing
Lacks(c) ==
    \/ ~InsideRoot(c)
    \/ c \in DOMAIN fsCache /\ fsCache[c].kind = "notexist"
    \/ c \notin DOMAIN fsCache /\ ~rootClosed /\ NotExists(c)

\* the candidates of a search list, in list order
RECURSIVE Candidates(_, _)
Candidates(dirs, path) ==
    IF dirs = <<>> THEN <<>>
    ELSE <<LibCandidate(Head(dirs), path)>> \o Candidates(Tail(dirs), path)

\* the positions of the candidate that is the first to hold a file
FirstHits(cands) ==
    {i \in 1..Len(cands) :
        /\ HoldsFile(cands[i])
        /\ \A j \in 1..(i - 1) : Lacks(cands[j])}

\* the call returned the file of the first search directory that holds it
ReturnsFirstHit(from, path) ==
    \A cands \in {Candidates(EffectiveDirs(from), path)} :
        \A i \in FirstHits(cands) :
            /\ last'.status = "ok"
            /\ last'.foundAt = cands[i]
            /\ last'.contents = ContentOf(cands[i])

\* the candidates that the library search of the last call handed to tryAbsPath
SearchTried(l) == SelectSeq(l.tried, LAMBDA t : t.dir # Empty)

\* ------------------------------------------------------------------------
\* Properties
\* ------------------------------------------------------------------------

\* C1: every successful call returns a canonical path that is root or a
\* descendant of root together with the bytes of the file at that path (as
\* cached or as on disk), never the bytes of the file outside root; a call
\* that reads a location holding a symbolic link to the outside ends in
\* ErrReadFile without content.
C1_ConfinedToRoot ==
    [][ImportStep =>
        /\ last'.status = "ok" =>
              /\ InsideRoot(last'.foundAt)
              /\ last'.contents.at = last'.foundAt
              /\ last'.contents # Secret
              /\ HoldsFile(last'.foundAt)
              /\ last'.contents = ContentOf(last'.foundAt)
        /\ \A i \in 1..Len(last'.reads) :
              LET t == Join(<<RootDir, last'.reads[i].rel>>)
              IN  (t \in Slots /\ fs[t] = SymOut) =>
                      /\ last'.status = "ErrReadFile"
                      /\ last'.contents = NoData
                      /\ last'.foundAt = Empty]_vars

\* an earlier call has succeeded and this one read a symbolic link that
\* points outside root
C1_Witness ==
    /\ last.op = "import"
    /\ last.status = "ErrReadFile"
    /\ \E i \in 1..Len(last.reads) :
          /\ last.reads[i].kind = "other"
          /\ Join(<<RootDir, last.reads[i].rel>>) \in Slots
          /\ fs[Join(<<RootDir, last.reads[i].rel>>)] = SymOut
    /\ \E k \in DOMAIN fsCache : fsCache[k].kind = "content"

\* C2: every path handed to the root handle (for the primary candidate and
\* for every library candidate) is relative, cleaned, and does not begin
\* with "..".
C2_ReadsAreRootRelative ==
    \A i \in 1..Len(last.reads) :
        LET r == last.reads[i].rel
        IN  /\ ~IsAbs(r)
            /\ Clean(r) = r
            /\ ~HasDotDotPrefix(r)

\* one call read its primary candidate and then a library candidate
C2_Witness ==
    /\ Len(last.reads) >= 2
    /\ last.tried[1].dir = Empty
    /\ last.reads[1].rel = last.tried[1].rel
    /\ last.searched

\* C3: a request whose importedPath is absolute and cleans to a location
\* outside root ends in ErrForbiddenAbsolutePath, for initial and nested
\* imports, and is terminal: no candidate is tried, nothing is read, the
\* library search is not entered.
C3_ForbiddenAbsolute ==
    (/\ last.op = "import"
     /\ ValidRequest(last.from, last.path)
     /\ IsAbs(last.path)
     /\ ~InsideRoot(Clean(last.path)))
    => /\ last.status = "ErrForbiddenAbsolutePath"
       /\ ~last.searched
       /\ last.tried = <<>>
       /\ last.reads = <<>>

\* a nested import of the outside file by its absolute path was refused
\* while the library directory holds a file of the same base name
C3_Witness ==
    /\ last.op = "import"
    /\ last.from = RootFile
    /\ last.path = OutFile
    /\ last.status = "ErrForbiddenAbsolutePath"
    /\ fs[LibFile].kind = "file"
    /\ \E i \in 1..Len(JPaths) : JPaths[i] = RelP(<<"lib">>)

\* C4: a nested import with a relative importedPath whose cleaned join with
\* the directory of importedFrom is outside root ends in
\* ErrForbiddenRelativePathTraversal and is terminal: nothing is tried or
\* read and the library search is not entered.
C4_ForbiddenTraversal ==
    (/\ last.op = "import"
     /\ ValidRequest(last.from, last.path)
     /\ last.from # Empty
     /\ ~IsAbs(last.path)
     /\ ~InsideRoot(PrimaryTarget(last.from, last.path)))
    => /\ last.status = "ErrForbiddenRelativePathTraversal"
       /\ ~last.searched
       /\ last.tried = <<>>
       /\ last.reads = <<>>

\* the traversal was refused although the same importedPath joined to a
\* library directory names an existing file inside root
C4_Witness ==
    /\ last.op = "import"
    /\ last.status = "ErrForbiddenRelativePathTraversal"
    /\ \E i \in 1..Len(JPaths) :
          /\ LibCandidate(JPaths[i], last.path) \in Slots
          /\ fs[LibCandidate(JPaths[i], last.path)].kind = "file"

\* C5: a nested relative import with ".." segments whose cleaned target is
\* inside root raises no traversal error, and when the target answers with a
\* file the call succeeds with that file's content at the cleaned target.
C5_DotDotInsideRoot ==
    [][(/\ ImportStep
        /\ ValidRequest(last'.from, last'.path)
        /\ last'.from # Empty
        /\ ~IsAbs(last'.path)
        /\ HasDotDotSegment(last'.path))
       => \A target \in {PrimaryTarget(last'.from, last'.path)} :
             InsideRoot(target) =>
                /\ last'.status \notin ForbiddenErrors
                /\ HoldsFile(target) =>
                      /\ last'.status = "ok"
                      /\ last'.foundAt = target
                      /\ last'.contents = ContentOf(target)]_vars

\* "../lib/a" imported from a file in the sibling directory was read and
\* returned
C5_Witness ==
    /\ last.op = "import"
    /\ last.from = SubMain
    /\ last.path = RelP(<<"..", "lib", "a">>)
    /\ last.status = "ok"
    /\ last.foundAt = LibFile
    /\ Len(last.reads) = 1

\* C6: an absolute importedPath that cleans to a location inside root which
\* answers with a file succeeds, for initial and nested imports, with that
\* file's content and the cleaned importedPath as canonical path.
C6_AbsoluteInsideRoot ==
    [][(/\ ImportStep
        /\ ValidRequest(last'.from, last'.path)
        /\ IsAbs(last'.path)
        /\ HoldsFile(Clean(last'.path)))
       => /\ last'.status = "ok"
          /\ last'.foundAt = Clean(last'.path)
          /\ last'.contents = ContentOf(Clean(last'.path))]_vars

\* a nested import by an absolute path that needed cleaning was read and
\* returned
C6_Witness ==
    /\ last.op = "import"
    /\ last.from # Empty
    /\ IsAbs(last.path)
    /\ Clean(last.path) # last.path
    /\ last.status = "ok"
    /\ last.foundAt = Clean(last.path)
    /\ Len(last.reads) = 1

\* C7: an initial import with a relative importedPath whose absolute form in
\* the working directory is outside root raises no security error and tries
\* no primary candidate: it enters the library search with the original
\* importedPath and returns the file of the first search directory that
\* holds it.
C7_InitialOutsideFallsBack ==
    [][(/\ ImportStep
        /\ ValidRequest(last'.from, last'.path)
        /\ last'.from = Empty
        /\ ~IsAbs(last'.path)
        /\ ~InsideRoot(PrimaryTarget(Empty, last'.path)))
       => /\ last'.status \notin ForbiddenErrors
          /\ last'.searched
          /\ SearchTried(last') = last'.tried
          /\ \A i \in 1..Len(last'.tried) :
                last'.tried[i].abs = LibCandidate(last'.tried[i].dir, last'.path)
          /\ ReturnsFirstHit(Empty, last'.path)]_vars

\* from a working directory outside root, "a" was not in root and was found
\* in the library directory
C7_Witness ==
    /\ last.op = "import"
    /\ last.from = Empty
    /\ last.path = RelP(<<"a">>)
    /\ cwd = OutDir
    /\ last.status = "ok"
    /\ last.foundAt = LibFile
    /\ Len(last.reads) = 2

\* C8: when the primary candidate of a relative import (nested or initial)
\* is inside root and answers "no file" (not cached and not existing, or
\* cached as not existing), then after the call the cache holds a not-exist
\* entry under that candidate, no security error is raised, the library
\* search is entered and the file of the first search directory that holds
\* it is returned.
C8_NotFoundFallsBack ==
    [][(/\ ImportStep
        /\ ValidRequest(last'.from, last'.path)
        /\ ~IsAbs(last'.path))
       => \A target \in {PrimaryTarget(last'.from, last'.path)} :
             (InsideRoot(target) /\ Lacks(target)) =>
                /\ target \in DOMAIN fsCache'
                /\ fsCache'[target] = NotExistEntry
                /\ last'.status \notin ForbiddenErrors
                /\ last'.searched
                /\ ReturnsFirstHit(last'.from, last'.path)]_vars

\* a nested import did not find the file next to the importing file and
\* found it in a library directory
C8_Witness ==
    /\ last.op = "import"
    /\ last.from = SubMain
    /\ last.path = RelP(<<"a">>)
    /\ last.status = "ok"
    /\ last.searched
    /\ last.tried[1].abs \in DOMAIN fsCache
    /\ fsCache[last.tried[1].abs] = NotExistEntry
    /\ last.foundAt # last.tried[1].abs

\* C9: for a nested relative import whose candidate next to the importing
\* file answers with a file, that file is returned and the library search is
\* not entered; and when importedFrom is the canonical path returned by the
\* preceding successful call, the candidate tried first is the file next to
\* that path.
C9_ImporterDirectoryFirst ==
    [][(/\ ImportStep
        /\ ValidRequest(last'.from, last'.path)
        /\ last'.from # Empty
        /\ ~IsAbs(last'.path))
       => /\ \A target \in {PrimaryTarget(last'.from, last'.path)} :
                HoldsFile(target) =>
                   /\ last'.status = "ok"
                   /\ last'.foundAt = target
                   /\ last'.contents = ContentOf(target)
                   /\ ~last'.searched
                   /\ Len(last'.tried) = 1
                   /\ DOMAIN fsCache' \subseteq DOMAIN fsCache \cup {target}
          /\ (/\ last.op = "import"
              /\ last.status = "ok"
              /\ last'.from = last.foundAt
              /\ ~HasDotDotSegment(last'.path)) =>
                /\ last'.status \notin ForbiddenErrors
                /\ Len(last'.tried) >= 1
                /\ last'.tried[1].abs = Clean(Join(<<Dir(last.foundAt), last'.path>>))
                /\ last'.tried[1].dir = Empty]_vars

\* the file that an earlier call returned imports "a": the file next to it
\* (itself, from the cache) is returned, the library directory, which holds
\* a file "a" too, is not consulted
C9_Witness ==
    /\ ncalls = 2
    /\ last.op = "import"
    /\ last.from = RootFile
    /\ last.path = RelP(<<"a">>)
    /\ last.status = "ok"
    /\ last.foundAt = RootFile
    /\ last.reads = <<>>
    /\ ~last.searched
    /\ fs[LibFile].kind = "file"
    /\ JPaths = <<RelP(<<"lib">>)>>

\* C10: the library search hands the candidates of the effective search
\* directories to tryAbsPath in list order, skipping none that is inside
\* root, and stops at the first hit: the file of the first directory that
\* holds it is returned, and only tried candidates are read or cached.
C10_SearchInListOrder ==
    [][(ImportStep /\ last'.searched)
       => \A st \in {SearchTried(last')} :
          \A inside \in {SelectSeq(EffectiveDirs(last'.from),
                                   LAMBDA d : InsideRoot(LibCandidate(d, last'.path)))} :
              /\ Len(st) <= Len(inside)
              /\ \A i \in 1..Len(st) :
                    /\ st[i].dir = inside[i]
                    /\ st[i].abs = LibCandidate(inside[i], last'.path)
                    /\ i < Len(st) => Lacks(st[i].abs)
              /\ last'.status = "ok" =>
                    /\ Len(st) >= 1
                    /\ last'.foundAt = st[Len(st)].abs
              /\ last'.status = "ErrFileNotFound" => Len(st) = Len(inside)
              /\ ReturnsFirstHit(last'.from, last'.path)
              /\ DOMAIN fsCache' \subseteq
                    DOMAIN fsCache \cup {last'.tried[i].abs : i \in 1..Len(last'.tried)}
              /\ \A i \in 1..Len(last'.reads) :
                    \E j \in 1..Len(last'.tried) : last'.reads[i].rel = last'.tried[j].rel]_vars

\* root and the library directory both hold "a"; the initial import returned
\* the one of root, which is first in the list, and the other was not touched
C10_Witness ==
    /\ ncalls = 1
    /\ last.op = "import"
    /\ last.from = Empty
    /\ last.path = RelP(<<"a">>)
    /\ cwd = OutDir
    /\ JPaths = <<RelP(<<"lib">>)>>
    /\ last.status = "ok"
    /\ last.foundAt = RootFile
    /\ fs[LibFile].kind = "file"
    /\ LibFile \notin DOMAIN fsCache

\* C11: when an initial import reaches the library search, the list searched
\* is "." followed by JPaths if JPaths has no ".", and JPaths itself (no
\* second ".") if it has one; when a nested import reaches it, the list is
\* JPaths itself, so that the candidate of root is tried only if "." is one
\* of JPaths.
C11_EffectiveSearchList ==
    (last.op = "import" /\ last.searched) =>
        \A dotAt \in {{i \in 1..Len(JPaths) : JPaths[i] = Dot}} :
            /\ (last.from = Empty /\ dotAt = {}) => last.searchPaths = <<Dot>> \o JPaths
            /\ (last.from = Empty /\ dotAt # {}) => last.searchPaths = JPaths
            /\ last.from # Empty =>
                  /\ last.searchPaths = JPaths
                  /\ \A i \in 1..Len(last.tried) :
                        (last.tried[i].dir = Dot) => dotAt # {}
            /\ \A i \in 1..Len(last.tried) :
                  last.tried[i].dir # Empty =>
                      \E j \in 1..Len(last.searchPaths) :
                          last.searchPaths[j] = last.tried[i].dir

\* a nested import searched the library directory only and failed while root
\* holds the file, after an initial import had searched "." ahead of the
\* library directory
C11_Witness ==
    /\ ncalls = 2
    /\ last.op = "import"
    /\ last.from = SubMain
    /\ last.path = RelP(<<"a">>)
    /\ last.searched
    /\ JPaths = <<RelP(<<"lib">>)>>
    /\ last.searchPaths = JPaths
    /\ last.status = "ErrFileNotFound"
    /\ RootFile \in DOMAIN fsCache
    /\ fsCache[RootFile].kind = "content"

\* C12: when the primary candidate is not resolved (it is inside root and
\* answers "no file", or the import is initial and relative and its absolute
\* form is outside root) and every candidate of the effective search
\* directories answers "no file", the call ends in ErrFileNotFound; and a
\* call ends in ErrFileNotFound only after the library search went through
\* the whole effective list: each directory whose candidate is inside root
\* was tried and answered "no file", the others were skipped.
C12_FileNotFound ==
    [][(ImportStep /\ ValidRequest(last'.from, last'.path))
       => \A target \in {PrimaryTarget(last'.from, last'.path)} :
          \A cands \in {Candidates(EffectiveDirs(last'.from), last'.path)} :
              /\ (/\ \/ (InsideRoot(target) /\ Lacks(target))
                      \/ (last'.from = Empty /\ ~IsAbs(last'.path) /\ ~InsideRoot(target))
                   /\ \A i \in 1..Len(cands) : Lacks(cands[i]))
                  => last'.status = "ErrFileNotFound"
              /\ last'.status = "ErrFileNotFound" =>
                    \A st \in {SearchTried(last')} :
                    \A inside \in {SelectSeq(cands, InsideRoot)} :
                        /\ last'.searched
                        /\ Len(st) = Len(inside)
                        /\ \A i \in 1..Len(st) :
                              /\ st[i].abs = inside[i]
                              /\ Lacks(inside[i])
                              /\ inside[i] \in DOMAIN fsCache'
                              /\ fsCache'[inside[i]] = NotExistEntry
                        /\ \A i \in 1..Len(cands) : Lacks(cands[i])]_vars

\* with "." and the library directory to search, an initial import from a
\* working directory outside root found the file in neither: one directory
\* answered from the disk, both were tried
C12_Witness ==
    /\ last.op = "import"
    /\ last.from = Empty
    /\ last.path = RelP(<<"a">>)
    /\ cwd = OutDir
    /\ last.status = "ErrFileNotFound"
    /\ Len(last.searchPaths) = 2
    /\ Len(SearchTried(last)) = 2
    /\ Len(last.reads) >= 1

\* C13: a call that repeats the request of the preceding call, which
\* succeeded, succeeds with the same content and the same canonical path
\* and reads nothing, also when the file was removed, rewritten or replaced
\* by a link in between.
C13_RepeatedRequest ==
    [][(/\ ImportStep
        /\ last.op = "import"
        /\ last.status = "ok"
        /\ last'.from = last.from
        /\ last'.path = last.path)
       => /\ last'.status = "ok"
          /\ last'.contents = last.contents
          /\ last'.foundAt = last.foundAt
          /\ last'.reads = <<>>
          /\ fsCache' = fsCache]_vars

\* the nested import of "a" from the sibling directory found the library
\* file a second time, with the content of the first time, after the file
\* was removed or rewritten (the working directory is outside root, so that
\* no other request looks next to the importing file)
C13_Witness ==
    /\ ncalls = 2
    /\ nfs = 1
    /\ cwd = OutDir
    /\ last.op = "import"
    /\ last.from = SubMain
    /\ last.path = RelP(<<"a">>)
    /\ last.status = "ok"
    /\ last.foundAt = LibFile
    /\ last.contents = Data(LibFile, 1)
    /\ last.reads = <<>>
    /\ fs[LibFile] # File(Data(LibFile, 1))

\* C14: a call whose importedFrom or importedPath holds a null byte ends in
\* ErrInvalidNullByte without content, before any candidate is computed:
\* nothing is tried or read, the library search is not entered and the cache
\* is left as it was, whatever the other argument and the cache hold.
C14_NullByte ==
    [][(ImportStep /\ (HasNul(last'.from) \/ HasNul(last'.path)))
       => /\ last'.status = "ErrInvalidNullByte"
          /\ last'.contents = NoData
          /\ last'.foundAt = Empty
          /\ last'.tried = <<>>
          /\ last'.reads = <<>>
          /\ ~last'.searched
          /\ fsCache' = fsCache]_vars

\* with entries in the cache, a request whose importedFrom holds a null byte
\* and whose importedPath is the absolute path of the outside file was
\* refused for the null byte
C14_Witness ==
    /\ ncalls = 2
    /\ last.op = "import"
    /\ HasNul(last.from)
    /\ last.path = OutFile
    /\ last.status = "ErrInvalidNullByte"
    /\ \E k \in DOMAIN fsCache : fsCache[k].kind = "content"

\* C15: every call whose importedPath is absolute and cleans to a location
\* outside root ends in ErrForbiddenAbsolutePath, and every nested call
\* whose relative importedPath resolves outside root ends in
\* ErrForbiddenRelativePathTraversal; neither ends in ErrFileNotFound nor
\* leaves anything in the cache, so that the call that repeats such a
\* request ends in the same error.
C15_ViolationNeverNotFound ==
    [][(ImportStep /\ ValidRequest(last'.from, last'.path))
       => \A target \in {PrimaryTarget(last'.from, last'.path)} :
             /\ (IsAbs(last'.path) /\ ~InsideRoot(target))
                    => last'.status = "ErrForbiddenAbsolutePath"
             /\ (last'.from # Empty /\ ~IsAbs(last'.path) /\ ~InsideRoot(target))
                    => last'.status = "ErrForbiddenRelativePathTraversal"
             /\ ((IsAbs(last'.path) \/ last'.from # Empty) /\ ~InsideRoot(target))
                    => /\ last'.status # "ErrFileNotFound"
                       /\ last'.contents = NoData
                       /\ fsCache' = fsCache
             /\ (/\ last.op = "import"
                 /\ last.status \in ForbiddenErrors
                 /\ last'.from = last.from
                 /\ last'.path = last.path)
                    => last'.status = last.status]_vars

\* the second of two calls that left the cache empty was refused as a
\* traversal while the importedPath is the name of an existing file of root
C15_Witness ==
    /\ ncalls = 2
    /\ fsCache = << >>
    /\ ~rootClosed
    /\ last.op = "import"
    /\ last.from = RootFile
    /\ last.path = RelP(<<"..", "a">>)
    /\ last.status = "ErrForbiddenRelativePathTraversal"
    /\ fs[RootFile].kind = "file"

\* C16: a read through the root handle that fails otherwise than with "not
\* exist" (a link that leaves root, a directory, a closed handle) ends the
\* call in ErrReadFile without content: it is the last read and the last
\* candidate tried, nothing is cached for it, no later search directory is
\* consulted even if it holds the file, and the call does not end in
\* ErrFileNotFound.
C16_ReadErrorIsTerminal ==
    [][ImportStep =>
        \A i \in 1..Len(last'.reads) :
            last'.reads[i].kind = "other" =>
                /\ i = Len(last'.reads)
                /\ last'.status = "ErrReadFile"
                /\ last'.contents = NoData
                /\ last'.foundAt = Empty
                /\ last'.tried[Len(last'.tried)].rel = last'.reads[i].rel
                /\ last'.tried[Len(last'.tried)].abs \notin DOMAIN fsCache'
                /\ \A j \in 1..(Len(last'.tried) - 1) : Lacks(last'.tried[j].abs)]_vars

\* the initial import of "a" met a link to the outside in root, the first
\* search directory, and failed without looking into the library directory,
\* which holds "a"
C16_Witness ==
    /\ last.op = "import"
    /\ last.from = Empty
    /\ last.path = RelP(<<"a">>)
    /\ last.status = "ErrReadFile"
    /\ last.searched
    /\ last.searchPaths = <<Dot, RelP(<<"lib">>)>>
    /\ last.tried[Len(last.tried)].abs = RootFile
    /\ fs[RootFile] = SymOut
    /\ fs[LibFile].kind = "file"
    /\ LibFile \notin DOMAIN fsCache
    /\ ~rootClosed

\* the nested import of the library directory itself failed at the primary
\* candidate and the library search was not entered
C16_WitnessDirectory ==
    /\ last.op = "import"
    /\ last.from = RootFile
    /\ last.path = RelP(<<"lib">>)
    /\ ~rootClosed
    /\ last.status = "ErrReadFile"
    /\ ~last.searched

\* the non-empty entries of a configured list, and the location that a
\* configured library path names
NonEmpty(jpaths) == SelectSeq(jpaths, LAMBDA jp : jp # Empty)
NamedDir(jp) == IF jp.abs THEN Clean(jp) ELSE Join(<<RootDir, jp>>)

\* C17: a construction that got as far as the library paths succeeds only
\* if every non-empty configured path names root or a descendant of root;
\* when a path names a location outside root and no null byte is met up to
\* it, the construction fails with ErrJPathOutsideRoot; hence every element
\* of the JPaths of a constructed importer, joined to root and cleaned, is
\* root or a descendant of root.
C17_LibraryPathsInsideRoot ==
    (last.op = "new" /\ last.err \notin {"ErrEmptyRootDir", "ErrAbsPath", "ErrOpenRootDir"})
    => \A ne \in {NonEmpty(last.jpaths)} :
          /\ last.err = "" => \A i \in 1..Len(ne) : InsideRoot(NamedDir(ne[i]))
          /\ (\E i \in 1..Len(ne) :
                 /\ ~InsideRoot(NamedDir(ne[i]))
                 /\ \A j \in 1..i : ~HasNul(ne[j]))
              => /\ last.err = "ErrJPathOutsideRoot"
                 /\ made = "nil"
          /\ made = "built" =>
                /\ last.err = ""
                /\ \A i \in 1..Len(JPaths) :
                      /\ ~IsAbs(JPaths[i])
                      /\ InsideRoot(Clean(Join(<<rootAbsPath, JPaths[i]>>)))

\* the construction was refused for an absolute library path outside root
\* that follows a path inside root
C17_Witness ==
    /\ last.op = "new"
    /\ last.jpaths = <<RelP(<<"lib">>), OutDir>>
    /\ last.err = "ErrJPathOutsideRoot"
    /\ made = "nil"
    /\ opened = 1

\* an importer was constructed from a relative and an absolute library path
\* that both needed cleaning
C17_WitnessBuilt ==
    /\ last.op = "new"
    /\ made = "built"
    /\ last.jpaths = <<RelP(<<"sub", "..", "lib">>), AbsP(<<"r", "sub", ".">>)>>
    /\ JPaths = <<RelP(<<"lib">>), RelP(<<"sub">>)>>

\* C18: the importer constructed from no library paths, or from empty
\* entries only, has JPaths = <<".">>; otherwise JPaths has one element for
\* each non-empty configured entry, in the configured order, naming the same
\* location; JPaths is never empty.
C18_DefaultAndOrder ==
    (last.op = "new" /\ last.err = "")
    => \A ne \in {NonEmpty(last.jpaths)} :
          /\ made = "built"
          /\ Len(JPaths) >= 1
          /\ ne = <<>> => JPaths = <<Dot>>
          /\ ne # <<>> =>
                /\ Len(JPaths) = Len(ne)
                /\ \A i \in 1..Len(ne) :
                      /\ Join(<<RootDir, JPaths[i]>>) = NamedDir(ne[i])
                      /\ Clean(JPaths[i]) = JPaths[i]

\* a list of empty entries only gave the importer the search list <<".">>
C18_Witness ==
    /\ last.op = "new"
    /\ last.jpaths = <<Empty, Empty>>
    /\ made = "built"
    /\ JPaths = <<Dot>>

\* an empty entry between two library paths was dropped and the two kept
\* their order
C18_WitnessOrder ==
    /\ last.op = "new"
    /\ last.jpaths = <<RelP(<<"sub">>), Empty, RelP(<<"lib">>)>>
    /\ made = "built"
    /\ JPaths = <<RelP(<<"sub">>), RelP(<<"lib">>)>>

\* C19: a construction that fails returns no importer and leaves no root
\* handle open.  With an empty rootDir (ErrEmptyRootDir), a rootDir whose
\* absolute path cannot be computed (ErrAbsPath) or that cannot be opened
\* (ErrOpenRootDir) no handle was opened; with a library path that is
\* outside root or holds a null byte the handle that was opened has been
\* closed.  A construction that succeeds leaves its one handle open.
C19_FailedConstructionClosesRoot ==
    last.op = "new" =>
        /\ last.rootDir = Empty => last.err = "ErrEmptyRootDir"
        /\ (last.rootDir # Empty /\ ~IsAbs(last.rootDir) /\ cwd = NoCwd)
              => last.err = "ErrAbsPath"
        /\ last.rootDir = AbsP(<<"nodir">>) => last.err = "ErrOpenRootDir"
        /\ (\E i \in 1..Len(last.jpaths) :
               HasNul(last.jpaths[i]) \/ ~InsideRoot(NamedDir(last.jpaths[i])))
              => last.err # ""
        /\ last.err \in {"ErrEmptyRootDir", "ErrAbsPath", "ErrOpenRootDir"} => opened = 0
        /\ last.err \in {"ErrJPathOutsideRoot", "ErrInvalidNullByte"} => opened = 1
        /\ last.err # "" =>
              /\ made = "nil"
              /\ JPaths = <<>>
              /\ released = opened
              /\ last.err \in {"ErrEmptyRootDir", "ErrAbsPath", "ErrOpenRootDir",
                                "ErrJPathOutsideRoot", "ErrInvalidNullByte"}
        /\ last.err = "" =>
              /\ made = "built"
              /\ opened = 1
              /\ released = 0

\* the construction opened root, met a null byte in a library path, closed
\* the handle and returned the error
C19_Witness ==
    /\ last.op = "new"
    /\ last.err = "ErrInvalidNullByte"
    /\ made = "nil"
    /\ opened = 1
    /\ released = 1

\* the step is one counted call of Close
CloseStep == last'.op = "close" /\ ncalls' = ncalls + 1

\* C20: every call of Close returns nil, on an importer that was
\* constructed and on one whose root is nil, the first time and every later
\* time; the first call on a constructed importer gives its root handle
\* back, every later call and every call on a nil root change nothing, so
\* that the handle is given back exactly once and never without having been
\* opened.
C20_CloseIsIdempotent ==
    [][CloseStep =>
        /\ last'.err = ""
        /\ made' = made
        /\ opened' = opened
        /\ JPaths' = JPaths
        /\ fsCache' = fsCache
        /\ made = "built" =>
              /\ rootClosed'
              /\ opened = 1
              /\ released' = 1
              /\ ncalls = 0 => released = 0
        /\ made = "literal" =>
              /\ opened = 0
              /\ released' = 0
              /\ rootClosed' = rootClosed
        /\ ncalls >= 1 =>
              /\ released' = released
              /\ rootClosed' = rootClosed]_vars

\* a constructed importer was closed a second time: nil was returned and the
\* handle has been given back once
C20_Witness ==
    /\ made = "built"
    /\ ncalls >= 2
    /\ last.op = "close"
    /\ last.err = ""
    /\ rootClosed
    /\ opened = 1
    /\ released = 1

\* an importer whose root is nil was closed twice
C20_WitnessNilRoot ==
    /\ made = "literal"
    /\ ncalls >= 2
    /\ last.op = "close"
    /\ last.err = ""
    /\ released = 0

\* C21: every call of Import made after Close has returned ends in an error
\* and returns no content, whatever the request and the cache.
C21_ResolveAfterCloseFails ==
    [][(ImportStep /\ rootClosed)
       => /\ last'.status # "ok"
          /\ last'.contents = NoData
          /\ last'.foundAt = Empty]_vars

\* ------------------------------------------------------------------------
\* The inside/outside classification on its own
\* ------------------------------------------------------------------------
MaxSegs == 3

\* segment names: root's, a sibling's that begins like root's, one that
\* begins with two dots, and others
SegNames == {"r", "rx", "..x", "a", "lib", "w"}

\* the cleaned absolute paths of up to MaxSegs segments
CleanCandidates ==
    {AbsP(segs) : segs \in UNION {[1..n -> SegNames] : n \in 0..MaxSegs}}

\* where the three uses of the classification put candidate cand: as the
\* primary candidate of a nested import of the absolute path cand, as the
\* library candidate that "." gives for the path of cand relative to root,
\* and as a configured library path
Classified(cand) ==
    LET Library(o) == \E n \in DOMAIN o.tried : o.tried[n].abs = cand
        Primary(o) == o.status # "ErrForbiddenAbsolutePath"
    IN  [op |-> "classified", cand |-> cand,
         primary |-> Primary(ImportOutcome(<< >>, NoFiles, FALSE, OutDir, RootDir, <<Dot>>,
                                           RootFile, cand)),
         library |-> Library(ImportOutcome(<< >>, NoFiles, FALSE, OutDir, RootDir, <<Dot>>,
                                           Empty, Rel(RootDir, cand).path)),
         jpath |-> resolveJPath(cand, RootDir).err = ""]

\* a candidate is chosen and nothing else is there
ClassInit ==
    /\ last \in {[op |-> "candidate", cand |-> c] : c \in CleanCandidates}
    /\ cwd = OutDir
    /\ made = "none"
    /\ opened = 0
    /\ released = 0
    /\ JPaths = <<>>
    /\ rootAbsPath = RootDir
    /\ rootClosed = FALSE
    /\ fsCache = << >>
    /\ fs = NoFiles
    /\ callers = << >>
    /\ ncalls = 0
    /\ nfs = 0
    /\ goos = "linux"

\* the candidate is classified
Classify ==
    /\ last.op = "candidate"
    /\ last' = Classified(last.cand)
    /\ UNCHANGED <<JPaths, rootAbsPath, rootClosed, fsCache, fs, cwd, ncalls, nfs, made,
                   opened, released, callers, goos>>

ClassNext == Classify

ClassSpec == ClassInit /\ [][ClassNext]_vars

\* ------------------------------------------------------------------------
\* An importer whose cache was written to from outside tryAbsPath
\* ------------------------------------------------------------------------

\* a cache value that is not a *cacheEntry, and an entry that holds an error
\* other than not-exist
BadEntry == [kind |-> "string", contents |-> NoData, foundAt |-> Empty]
StickyEntry == [kind |-> "stickyerr", contents |-> NoData, foundAt |-> Empty]

\* the state after NewSafeImporter and one fsCache.Store of such a value
PoisonInit ==
    /\ cwd = OutDir
    /\ \E jpaths \in JPathConfigs :
          \E n \in {NewSafeImporter(cwd, RootDir, jpaths)} :
              /\ n.err = ""
              /\ JPaths = n.paths
              /\ rootAbsPath = n.rootAbs
              /\ opened = n.opened
              /\ released = n.released
    /\ made = "built"
    /\ callers = << >>
    /\ rootClosed = FALSE
    /\ fsCache \in {k :> e : k \in Slots, e \in {BadEntry, StickyEntry}}
    /\ fs \in [Slots -> NodeKinds]
    /\ fs[RootFile] \in {Absent, File(Data(RootFile, 1))}
    /\ fs[LibFile] \in {Absent, File(Data(LibFile, 1))}
    /\ last = NoCall
    /\ ncalls = 0
    /\ nfs = 0
    /\ goos = "linux"

PoisonSpec == PoisonInit /\ [][Next]_vars

\* ------------------------------------------------------------------------
\* Names that differ in letter case
\* ------------------------------------------------------------------------

\* strings.ToLower on a segment name, and on a path
Lower(name) == IF name = "A" THEN "a" ELSE IF name = "LIB" THEN "lib" ELSE name
ToLower(p) == [abs |-> p.abs, segs |-> [i \in DOMAIN p.segs |-> Lower(p.segs[i])]]

\* the platforms, and those whose filesystem does not tell letter case apart
Platforms == {"linux", "darwin", "windows"}
FoldsCase(os) == os \in {"darwin", "windows"}

\* the name that the filesystem of platform os looks up for relPath
OpenName(os, relPath) == IF FoldsCase(os) THEN ToLower(relPath) ELSE relPath

\* absolute import paths inside root, in several spellings
CaseRequests ==
    { AbsP(<<"r", "a">>), AbsP(<<"r", "A">>), AbsP(<<"r", ".", "A">>),
      AbsP(<<"r", "lib", "a">>), AbsP(<<"r", "LIB", "a">>), AbsP(<<"r", "lib", "A">>) }

\* the primary attempt of Import for an absolute importedPath inside root,
\* on platform os: the candidate is cleaned and handed to tryAbsPath with its
\* path relative to root
ResolveOn(os, c, f, closed, rootAbs, importedPath) ==
    LET Inside(candidate, rel) == tryAbsPath(c, f, closed, candidate, OpenName(os, rel))
        Candidate(candidate) == Inside(candidate, Rel(rootAbs, candidate).path)
    IN  Candidate(Clean(importedPath))

\* an importer for root with an empty cache, on one of the platforms
CaseInit ==
    /\ goos \in Platforms
    /\ cwd = OutDir
    /\ JPaths = <<Dot>>
    /\ rootAbsPath = RootDir
    /\ made = "built"
    /\ opened = 1
    /\ released = 0
    /\ callers = << >>
    /\ rootClosed = FALSE
    /\ fsCache = << >>
    /\ fs \in [Slots -> {Absent} \cup {File(Data(s, 1)) : s \in Slots}]
    /\ \A s \in Slots : fs[s] \in {Absent, File(Data(s, 1))}
    /\ last = [op |-> "none"]
    /\ ncalls = 0
    /\ nfs = 0

\* one attempt for the absolute path importedPath
Resolve(importedPath) ==
    /\ ncalls < MaxCalls
    /\ \E t \in {ResolveOn(goos, fsCache, fs, rootClosed, rootAbsPath, importedPath)} :
          /\ fsCache' = t.cache
          /\ last' = [op |-> "resolve", path |-> importedPath, found |-> t.found,
                      err |-> t.err, contents |-> t.contents, foundAt |-> t.foundAt,
                      reads |-> t.reads]
    /\ ncalls' = ncalls + 1
    /\ UNCHANGED <<JPaths, rootAbsPath, rootClosed, fs, cwd, nfs, made, opened, released,
                   callers, goos>>

CaseNext == \E p \in CaseRequests : Resolve(p)

CaseSpec == CaseInit /\ [][CaseNext]_vars

\* the step closes the root handle
ClosingStep == rootClosed' /\ ~rootClosed

\* the step is a step of caller i
StepOf(i) == callers'[i] # callers[i]

\* C22 as claimed: Close changes no cache entry, and a call that fails on
\* the closed handle has added no cache entry since the handle was closed.
C22_CloseLeavesCacheAsClaimed ==
    [][/\ ClosingStep => fsCache' = fsCache
       /\ \A i \in DOMAIN callers :
             (callers'[i].pc = "done" /\ callers'[i].status = "ErrReadFile")
                => ~callers'[i].lateStore]_vars

\* C22 as amended: Close changes no cache entry; a read on the closed handle
\* ends the call in ErrReadFile and stores nothing; with the handle closed
\* no caller gets to the Store but one that had completed its read before,
\* and such a caller adds the entry of that read only.
C22_CloseLeavesCache ==
    [][/\ ClosingStep => fsCache' = fsCache
       /\ \A i \in DOMAIN callers :
             (rootClosed /\ StepOf(i)) =>
                /\ callers[i].pc = "open" =>
                      /\ callers'[i].pc = "done"
                      /\ callers'[i].status = "ErrReadFile"
                      /\ callers'[i].contents = NoData
                      /\ fsCache' = fsCache
                /\ callers[i].pc = "load" =>
                      /\ callers'[i].pc # "store"
                      /\ fsCache' = fsCache
                /\ callers[i].pc = "store" =>
                      /\ callers[i].got.kind \in {"ok", "notexist"}
                      /\ DOMAIN fsCache' = DOMAIN fsCache \cup {callers[i].cands[callers[i].k].abs}
                      /\ \A key \in DOMAIN fsCache :
                            key # callers[i].cands[callers[i].k].abs
                               => fsCache'[key] = fsCache[key]]_vars

\* the handle was closed while one caller was between its cache lookup and
\* its read: that call failed and stored nothing, the cache holds what the
\* other caller had stored before
C22_Witness ==
    /\ rootClosed
    /\ \E i, j \in DOMAIN callers :
          /\ callers[i].pc = "done"
          /\ callers[i].status = "ErrReadFile"
          /\ Len(callers[i].reads) = 1
          /\ ~callers[i].lateStore
          /\ callers[j].pc = "done"
          /\ callers[j].status = "ok"
          /\ ~callers[j].lateStore
          /\ DOMAIN fsCache = {callers[j].foundAt}

\* C23: with the handle open, every caller of one request whose file
\* existed inside root when the calls began returns success with the content
\* and the path a call on its own returns, in every interleaving and also
\* when the file is removed after a first read has been stored.
C23_AllCallersSucceed ==
    ~rootClosed =>
        \A i \in DOMAIN callers :
            (callers[i].pc = "done" /\ callers[i].want.status = "ok")
               => /\ callers[i].status = "ok"
                  /\ callers[i].contents = callers[i].want.contents
                  /\ callers[i].foundAt = callers[i].want.foundAt

\* the reads of location p made by all callers together
ReadsOf(p) ==
    UNION {{<<i, n>> : n \in {m \in DOMAIN callers[i].reads : callers[i].reads[m] = p}} :
              i \in DOMAIN callers}

\* C24 as claimed: the file the request resolves to is read at most once by
\* all callers together.
C24_OneReadInTotal ==
    \A i \in DOMAIN callers :
        callers[i].want.status = "ok"
           => Cardinality(ReadsOf(callers[i].want.foundAt)) <= 1

\* C24 as amended: a caller whose cache lookup finds an entry for the
\* candidate does not read it, a caller reads only after a lookup that
\* missed, and no caller reads one location twice, so that N callers read
\* the target at most N times.
C24_OneReadPerCaller ==
    [][\A i \in DOMAIN callers :
          StepOf(i) =>
             /\ (callers[i].pc = "load" /\ callers[i].cands[callers[i].k].abs \in DOMAIN fsCache)
                   => (callers'[i].pc # "open" /\ callers'[i].reads = callers[i].reads)
             /\ callers'[i].reads # callers[i].reads => callers[i].pc = "open"
             /\ \A m, n \in DOMAIN callers'[i].reads :
                   callers'[i].reads[m] = callers'[i].reads[n] => m = n]_vars

\* both callers have returned the file, one after reading it and the other
\* from the entry the first had stored
C24_Witness ==
    \E i, j \in DOMAIN callers :
        /\ callers[i].pc = "done" /\ callers[i].status = "ok"
        /\ callers[j].pc = "done" /\ callers[j].status = "ok"
        /\ callers[i].reads = <<callers[i].foundAt>>
        /\ callers[j].reads = << >>
        /\ callers[j].contents = callers[i].contents

\* C25 as claimed: in the importer constructed from a list of library paths,
\* a relative path is stored as its cleaned form and an absolute path as its
\* path relative to root, whatever the working directory.
C25_StoredAsCleaned ==
    (last.op = "new" /\ last.err = "")
    => \A ne \in {NonEmpty(last.jpaths)} :
          \A i \in 1..Len(ne) :
             /\ ~IsAbs(ne[i]) => JPaths[i] = Clean(ne[i])
             /\ IsAbs(ne[i]) =>
                   /\ ~IsAbs(JPaths[i])
                   /\ Join(<<rootAbsPath, JPaths[i]>>) = Clean(ne[i])

\* C25 as amended: a relative library path is joined to root, never to the
\* working directory, and stored as the cleaned path of that location
\* relative to root, which is the cleaned form of the path given unless it
\* begins with ".."; an absolute path is stored as its path relative to
\* root.
C25_RelativeToRoot ==
    (last.op = "new" /\ last.err = "")
    => \A ne \in {NonEmpty(last.jpaths)} :
          \A i \in 1..Len(ne) :
             /\ ~IsAbs(JPaths[i])
             /\ ~HasDotDotSegment(JPaths[i])
             /\ Clean(JPaths[i]) = JPaths[i]
             /\ ~IsAbs(ne[i]) =>
                   /\ Join(<<rootAbsPath, JPaths[i]>>) = Join(<<rootAbsPath, ne[i]>>)
                   /\ ~HasDotDotSegment(Clean(ne[i])) => JPaths[i] = Clean(ne[i])
             /\ IsAbs(ne[i]) => Join(<<rootAbsPath, JPaths[i]>>) = Clean(ne[i])

\* constructed in a working directory below root: the relative path was
\* stored cleaned and not joined to the working directory, the absolute one
\* relative to root
C25_Witness ==
    /\ last.op = "new"
    /\ made = "built"
    /\ cwd = SubDir
    /\ last.jpaths = <<RelP(<<"sub", "..", "lib">>), AbsP(<<"r", "sub", ".">>)>>
    /\ JPaths = <<RelP(<<"lib">>), RelP(<<"sub">>)>>

\* a relative path that leaves root and comes back was stored relative to
\* root
C25_WitnessReenters ==
    /\ last.op = "new"
    /\ made = "built"
    /\ last.jpaths = <<RelP(<<"..", "r", "lib">>)>>
    /\ JPaths = <<RelP(<<"lib">>)>>

\* C26: whatever callers and filesystem changes interleave, a step leaves
\* every key of the cache in the cache with the value it had: the entry
\* stored first for a key is never overwritten.
C26_FirstWriterWins ==
    [][\A key \in DOMAIN fsCache :
          /\ key \in DOMAIN fsCache'
          /\ fsCache'[key] = fsCache[key]]_vars

RepeatStep ==
    /\ ImportStep
    /\ last.op = "import"
    /\ last'.from = last.from
    /\ last'.path = last.path

\* C28 as claimed: the repetition of a request reads nothing, whatever the
\* first call returned, and every candidate of the first call is in the
\* cache.
C28_RepeatNeverReads ==
    [][RepeatStep =>
          /\ last'.reads = <<>>
          /\ \A n \in DOMAIN last.tried : last.tried[n].abs \in DOMAIN fsCache]_vars

\* C28 as amended: when the first call returned anything but a read error,
\* the repetition reads nothing, tries the same candidates, finds each of
\* them in the cache, leaves the cache as it is and returns what the first
\* call returned.
C28_RepeatReadsNothing ==
    [][(RepeatStep /\ last.status # "ErrReadFile") =>
          /\ last'.reads = <<>>
          /\ last'.tried = last.tried
          /\ \A n \in DOMAIN last.tried : last.tried[n].abs \in DOMAIN fsCache
          /\ fsCache' = fsCache
          /\ last'.status = last.status
          /\ last'.contents = last.contents
          /\ last'.foundAt = last.foundAt]_vars

\* a request that found no file at its two candidates was repeated after a
\* file had been written at one of them: nothing was read
C28_Witness ==
    /\ ncalls = 2
    /\ nfs = 1
    /\ last.op = "import"
    /\ last.from = SubMain
    /\ last.path = RelP(<<"a">>)
    /\ last.status = "ErrFileNotFound"
    /\ Len(last.tried) = 2
    /\ \A n \in DOMAIN last.tried : last.tried[n].abs \in DOMAIN fsCache
    /\ fs[LibFile].kind = "file"
    /\ last.reads = <<>>

\* C29: each of the three uses of the classification takes a cleaned
\* absolute candidate for inside exactly when it is root or lies below
\* root.
C29_InsideIffBelowRoot ==
    last.op = "classified" =>
        /\ last.primary <=> InsideRoot(last.cand)
        /\ last.library <=> InsideRoot(last.cand)
        /\ last.jpath <=> InsideRoot(last.cand)

\* C30: in a library search, a search directory whose candidate lies
\* outside root is passed over: the candidate is not handed to tryAbsPath,
\* is not read and gets no cache entry, the call does not end in a security
\* error, and when no earlier directory ended the search the next directory
\* whose candidate is inside root is tried.
C30_OutsideCandidateSkipped ==
    [][(ImportStep /\ last'.searched)
       => \A dirs \in {EffectiveDirs(last'.from)} :
          \A cands \in {Candidates(dirs, last'.path)} :
          \A n \in 1..Len(cands) :
             ~InsideRoot(cands[n]) =>
                /\ \A j \in DOMAIN last'.tried : last'.tried[j].abs # cands[n]
                /\ \A i \in DOMAIN last'.reads :
                      Clean(Join(<<rootAbsPath, last'.reads[i].rel>>)) # cands[n]
                /\ cands[n] \notin DOMAIN fsCache'
                /\ last'.status \notin ForbiddenErrors
                /\ \A m \in (n + 1)..Len(cands) :
                      (/\ InsideRoot(cands[m])
                       /\ \A j \in 1..(m - 1) : Lacks(cands[j]))
                      => \E t \in DOMAIN last'.tried :
                            /\ last'.tried[t].abs = cands[m]
                            /\ last'.tried[t].dir = dirs[m]]_vars

\* the initial import of "../a" from a working directory outside root: the
\* candidate of "." is /a, outside root, and was passed over; the candidate
\* of the library directory is /r/a and was returned
C30_Witness ==
    /\ last.op = "import"
    /\ last.from = Empty
    /\ last.path = RelP(<<"..", "a">>)
    /\ cwd = OutDir
    /\ JPaths = <<RelP(<<"lib">>)>>
    /\ last.searchPaths = <<Dot, RelP(<<"lib">>)>>
    /\ Len(last.tried) = 1
    /\ last.tried[1].dir = RelP(<<"lib">>)
    /\ last.status = "ok"
    /\ last.foundAt = RootFile
    /\ DOMAIN fsCache = {RootFile}

\* C31: a call of Import that hands tryAbsPath a candidate whose cache value
\* is not a cache entry ends there with ErrCacheInternalType and no content:
\* the candidate is the last one tried, it is not read, and the value stays
\* in the cache as it was.
C31_MalformedEntryIsFatal ==
    [][ImportStep =>
          \A n \in DOMAIN last'.tried :
             (/\ last'.tried[n].abs \in DOMAIN fsCache
              /\ fsCache[last'.tried[n].abs] = BadEntry)
             => /\ n = Len(last'.tried)
                /\ last'.status = "ErrCacheInternalType"
                /\ last'.contents = NoData
                /\ last'.foundAt = Empty
                /\ \A i \in DOMAIN last'.reads : last'.reads[i].rel # last'.tried[n].rel
                /\ fsCache'[last'.tried[n].abs] = BadEntry]_vars

\* the library search came to a candidate with a value of the wrong type
\* after a candidate that it had read; a file is there, and the call ended
\* in ErrCacheInternalType without reading it
C31_Witness ==
    /\ last.op = "import"
    /\ last.status = "ErrCacheInternalType"
    /\ Len(last.tried) = 2
    /\ Len(last.reads) = 1
    /\ last.tried[2].abs \in DOMAIN fsCache
    /\ fsCache[last.tried[2].abs] = BadEntry
    /\ fs[last.tried[2].abs].kind = "file"

\* C32: when the call before returned a file and this call, made with a
\* different request, hands the location of that file to tryAbsPath, this
\* call returns the same content and the same path and does not read the
\* location, whatever the forms of the two requests and whatever has become
\* of the file.
C32_SameKeyForSameTarget ==
    [][(/\ ImportStep
        /\ last.op = "import"
        /\ last.status = "ok"
        /\ <<last'.from, last'.path>> # <<last.from, last.path>>
        /\ \E n \in DOMAIN last'.tried : last'.tried[n].abs = last.foundAt)
       => /\ last'.status = "ok"
          /\ last'.foundAt = last.foundAt
          /\ last'.contents = last.contents
          /\ \A i \in DOMAIN last'.reads :
                Clean(Join(<<rootAbsPath, last'.reads[i].rel>>)) # last.foundAt]_vars

\* the library file was found by the search for "a" from the sibling
\* directory, which left a not-exist entry for the sibling's own candidate;
\* the nested import of "../lib/a" then returned the file without a read
C32_Witness ==
    /\ ncalls = 2
    /\ last.op = "import"
    /\ last.from = SubMain
    /\ last.path = RelP(<<"..", "lib", "a">>)
    /\ last.status = "ok"
    /\ last.foundAt = LibFile
    /\ last.reads = <<>>
    /\ DOMAIN fsCache = {LibFile, AbsP(<<"r", "sub", "a">>)}

\* C33: on a platform whose filesystem does not tell letter case apart, the
\* cache never holds two keys that differ in letter case only, and a path
\* that differs from a cached key in letter case only is answered from that
\* entry without a read; on the other platforms the key of a path is its
\* cleaned form, unchanged.
C33_CaseNormalisedKey ==
    [][\A key \in {Clean(last'.path)} :
          (ncalls' = ncalls + 1 /\ last'.op = "resolve") =>
             /\ FoldsCase(goos) =>
                   /\ \A k1, k2 \in DOMAIN fsCache' : ToLower(k1) = ToLower(k2) => k1 = k2
                   /\ (\E k \in DOMAIN fsCache : ToLower(k) = ToLower(key))
                         => (last'.reads = <<>> /\ fsCache' = fsCache)
             /\ ~FoldsCase(goos) =>
                   /\ key \in DOMAIN fsCache'
                   /\ DOMAIN fsCache' = DOMAIN fsCache \cup {key}]_vars

\* C34: every cache entry is a content entry or a not-exist entry; a call
\* of Import that ends in ErrReadFile ends with the failed read of its last
\* candidate and leaves no entry under that candidate's key; and when the
\* same request is made again the candidate is read again.
C34_ReadErrorsAreNotCached ==
    [][/\ \A key \in DOMAIN fsCache' : fsCache'[key].kind \in {"content", "notexist"}
       /\ (ImportStep /\ last'.status = "ErrReadFile") =>
             /\ last'.tried # <<>>
             /\ last'.reads # <<>>
             /\ last'.reads[Len(last'.reads)].kind = "other"
             /\ last'.reads[Len(last'.reads)].rel = last'.tried[Len(last'.tried)].rel
             /\ last'.tried[Len(last'.tried)].abs \notin DOMAIN fsCache'
       /\ (RepeatStep /\ last.status = "ErrReadFile") =>
             \E i \in DOMAIN last'.reads :
                last'.reads[i].rel = last.tried[Len(last.tried)].rel]_vars

\* the nested import of the directory "lib" was made twice: the second call
\* read the directory again, failed again, and the cache is empty
C34_Witness ==
    /\ ncalls = 2
    /\ last.op = "import"
    /\ last.from = RootFile
    /\ last.path = RelP(<<"lib">>)
    /\ last.status = "ErrReadFile"
    /\ Len(last.reads) = 1
    /\ last.reads[1].kind = "other"
    /\ ~rootClosed
    /\ fsCache = << >>

\* C35: every cache key is a cleaned absolute path that is root or below
\* root, every content entry holds its own key as foundAt, and the foundAt of
\* a successful Import, read or answered from the cache, is such a path and
\* the key of a content entry.
C35_KeysAreCanonical ==
    /\ \A key \in DOMAIN fsCache :
          /\ InsideRoot(key)
          /\ fsCache[key].kind = "content" => fsCache[key].foundAt = key
    /\ (last.op = "import" /\ last.status = "ok") =>
          /\ InsideRoot(last.foundAt)
          /\ last.foundAt \in DOMAIN fsCache
          /\ fsCache[last.foundAt].kind = "content"
          /\ fsCache[last.foundAt].contents = last.contents

\* the root file, asked for by an absolute path with a "." segment, was
\* answered from the cache under its cleaned path
C35_Witness ==
    /\ ncalls = 2
    /\ last.op = "import"
    /\ last.path = AbsP(<<"r", ".", "a">>)
    /\ last.status = "ok"
    /\ last.reads = <<>>
    /\ last.foundAt = RootFile
    /\ RootFile \in DOMAIN fsCache
    /\ fsCache[RootFile].foundAt = RootFile

\* C36: a call of Import with an absolute importedPath inside root hands
\* only that path to tryAbsPath, reads nothing but its root-relative form,
\* and a file it returns is the file at that path.
C36_OnlyTheNamedPathIsRead ==
    [][(/\ ImportStep
        /\ last'.op = "import"
        /\ IsAbs(last'.path)
        /\ InsideRoot(Clean(last'.path)))
       => /\ \A n \in DOMAIN last'.tried : last'.tried[n].abs = Clean(last'.path)
          /\ \A i \in DOMAIN last'.reads :
                last'.reads[i].rel = Rel(rootAbsPath, Clean(last'.path)).path
          /\ last'.status = "ok" => last'.foundAt = Clean(last'.path)]_vars

\* C36, amended: a call of Import with an absolute importedPath inside root
\* tries that path first; when nothing is there the library search follows,
\* whose candidates are the search directories joined below root with the
\* absolute path.  Every read is the read of one of these candidates, a file
\* returned is at one of them, and ErrFileNotFound means none of them
\* answered with a file.
C36_NamedPathThenLibraries ==
    [][\A target \in {Clean(last'.path)} :
       \A cands \in {{LibCandidate(EffectiveDirs(last'.from)[k], last'.path) :
                         k \in DOMAIN EffectiveDirs(last'.from)}} :
         (/\ ImportStep
          /\ last'.op = "import"
          /\ IsAbs(last'.path)
          /\ InsideRoot(target))
         => /\ last'.tried # <<>> => last'.tried[1].abs = target
            /\ \A n \in DOMAIN last'.tried : n > 1 => last'.tried[n].abs \in cands
            /\ \A i \in DOMAIN last'.reads :
                  \E n \in DOMAIN last'.tried : last'.tried[n].rel = last'.reads[i].rel
            /\ last'.status = "ok" => last'.foundAt \in {target} \cup cands
            /\ last'.status = "ErrFileNotFound" =>
                  Lacks(target) /\ \A c \in cands : Lacks(c)
            /\ (Lacks(target) /\ ~HasNul(last'.from)) =>
                  /\ last'.searched
                  /\ \A c \in cands :
                        (InsideRoot(c) /\ last'.status = "ErrFileNotFound")
                        => \E n \in DOMAIN last'.tried : n > 1 /\ last'.tried[n].abs = c]_vars

\* the absolute path "/r/./a" was asked for from the root file while no file
\* was there: the call went on to the search directory "." and tried
\* "/r/r/a" before it answered ErrFileNotFound
C36_Witness ==
    /\ last.op = "import"
    /\ last.from = RootFile
    /\ last.path = AbsP(<<"r", ".", "a">>)
    /\ last.status = "ErrFileNotFound"
    /\ JPaths = <<Dot>>
    /\ Len(last.tried) = 2
    /\ last.tried[1].abs = RootFile
    /\ last.tried[2].abs = AbsP(<<"r", "r", "a">>)
    /\ Len(last.reads) = 2

\* C37: a call of Import that ends in ErrForbiddenAbsolutePath or
\* ErrForbiddenRelativePathTraversal hands no candidate to tryAbsPath, reads
\* nothing and leaves the cache as it was, with no entry for the location
\* the request names; the same request made again gets the same error.
C37_RefusalTouchesNothing ==
    [][/\ (ImportStep /\ last'.status \in ForbiddenErrors) =>
             /\ last'.reads = <<>>
             /\ last'.tried = <<>>
             /\ ~last'.searched
             /\ fsCache' = fsCache
             /\ PrimaryTarget(last'.from, last'.path) \notin DOMAIN fsCache'
       /\ (RepeatStep /\ last.status \in ForbiddenErrors) =>
             last'.status = last.status]_vars

\* the nested import of "../a" from the root file was refused twice, after a
\* call that had left an entry in the cache
C37_Witness ==
    /\ ncalls = 2
    /\ last.op = "import"
    /\ last.from = RootFile
    /\ last.path = RelP(<<"..", "a">>)
    /\ last.status = "ErrForbiddenRelativePathTraversal"
    /\ last.reads = <<>>
    /\ fsCache # << >>

\* an absolute path outside root was refused
C37_WitnessAbsolute ==
    /\ last.op = "import"
    /\ last.path = OutFile
    /\ last.status = "ErrForbiddenAbsolutePath"
    /\ last.reads = <<>>

C39_BoundedReads ==
    [][ImportStep =>
          /\ last'.status # ""
          /\ last'.status = "ok" <=> last'.foundAt # Empty
          /\ Len(last'.reads) <= Len(JPaths) + 2
          /\ Len(last'.reads) <= Len(last'.tried)
          /\ Len(last'.tried) <= 1 + Len(EffectiveDirs(last'.from))
          /\ Len(EffectiveDirs(last'.from)) <= Len(JPaths) + 1
          /\ \A n \in DOMAIN last'.tried : last'.tried[n].dir = Empty => n = 1
          /\ \A i, k \in DOMAIN last'.reads :
                last'.reads[i].rel = last'.reads[k].rel => i = k]_vars

\* an initial import read three locations, the primary candidate, the one
\* below "." and the one below the only configured directory, and ended in
\* ErrFileNotFound: Len(JPaths) + 2 reads
C39_Witness ==
    /\ last.op = "import"
    /\ last.from = Empty
    /\ Len(JPaths) = 1
    /\ Len(last.reads) = 3
    /\ Len(last.tried) = 3
    /\ last.status = "ErrFileNotFound"

====
